---------------------------- MODULE Spec2Model ----------------------------
(***************************************************************************)
(* The A2A "HelloWorld" extension samples: samples/python/agents/          *)
(* helloworld_Ext (greeting-style and random-method extensions) and        *)
(* samples/python/agents/helloworld_method_ext (time-greeting extension).  *)
(*                                                                         *)
(* Text is modelled by TLA+ strings, on which TLC evaluates Len, SubSeq,   *)
(* Tail and \o character by character.  A character outside ASCII is      *)
(* written {hex code point}, e.g. "{a1}Hola!" for the inverted exclamation *)
(* mark followed by Hola!; the encoding is injective, so two catalog       *)
(* entries are equal here exactly when they are equal in the source.       *)
(* Python dicts are functions whose DOMAIN is the set of keys present;     *)
(* JSON values that may have several types are tagged tuples.              *)
(***************************************************************************)
EXTENDS Integers, Sequences, FiniteSets, TLC

VARIABLES
  agent,        \* which sample program runs: "helloworld_Ext" or "helloworld_method_ext"
  rng,          \* state of the process-global generator of Python's random module
  request,      \* the RequestContext of the last execute() call
  active,       \* what the activation check of that call returned
  params,       \* the params dict the executor built for the handler
  response,     \* the dict the extension handler returned
  event_queue,  \* the events enqueued on the request's EventQueue
  call,         \* the last direct call of an extension method: its arguments and result
  reference,    \* a seeded handle_random_method call kept to compare later calls with
  threads,      \* the handle_random_method invocations in progress, step by step
  main          \* __main__: where it stands, and the agent cards it has built

vars == <<agent, rng, request, active, params, response, event_queue,
          call, reference, threads, main>>

-----------------------------------------------------------------------------
(* Strings: str.lower() and the substring test `keyword in text`.          *)

\* The characters str.lower() changes in the texts of the model: the ASCII
\* capitals, each mapped to its small letter.
LowerCaseOf ==
  [A |-> "a", B |-> "b", C |-> "c", D |-> "d", E |-> "e", F |-> "f", G |-> "g",
   H |-> "h", I |-> "i", J |-> "j", K |-> "k", L |-> "l", M |-> "m", N |-> "n",
   O |-> "o", P |-> "p", Q |-> "q", R |-> "r", S |-> "s", T |-> "t", U |-> "u",
   V |-> "v", W |-> "w", X |-> "x", Y |-> "y", Z |-> "z"]

\* One character of str.lower().
LowerChar(c) == IF c \in DOMAIN LowerCaseOf THEN LowerCaseOf[c] ELSE c

RECURSIVE Lower(_)
Lower(s) == IF Len(s) = 0 THEN "" ELSE LowerChar(SubSeq(s, 1, 1)) \o Lower(Tail(s))

\* Python's `keyword in text` on two strings.
Contains(text, keyword) ==
  \E i \in 1..(Len(text) - Len(keyword) + 1) :
     SubSeq(text, i, i + Len(keyword) - 1) = keyword

\* any(keyword in text for keyword in keywords)
ContainsAny(text, keywords) == \E k \in keywords : Contains(text, k)

-----------------------------------------------------------------------------
(* Extension identities.                                                   *)

GreetingStyleURI == "http://localhost:8080/extensions/greeting-style/v1"
RandomMethodURI  == "http://localhost:8080/extensions/random-greeting-method/v1"
TimeGreetingURI  == "http://localhost:8080/extensions/time-greeting/v1"
\* An extension URI of some other agent, which a client may also list.
OtherURI         == "http://localhost:8080/extensions/other/v1"

-----------------------------------------------------------------------------
(* The greeting catalogs (self._greetings of the three extensions).        *)

Style_greetings ==
  [casual |-> [en |-> "Hey there! {1f44b}",
               es |-> "{a1}Hola! {1f44b}",
               fr |-> "Salut! {1f44b}",
               de |-> "Hallo! {1f44b}",
               ja |-> "{3053}{3093}{306b}{3061}{306f}{ff01} {1f44b}"],
   formal |-> [en |-> "Good day. I am pleased to make your acquaintance.",
               es |-> "Buenos d{ed}as. Es un placer conocerle.",
               fr |-> "Bonjour. Je suis ravi de faire votre connaissance.",
               de |-> "Guten Tag. Es freut mich, Sie kennenzulernen.",
               ja |-> "{3053}{3093}{306b}{3061}{306f}{3002}{304a}{4f1a}{3044}{3067}{304d}{3066}{5149}{6804}{3067}{3059}{3002}"],
   enthusiastic |-> [en |-> "HELLO THERE!!! {1f389}{2728} Welcome to the amazing world of A2A!",
                     es |-> "{a1}{a1}{a1}HOLA!!! {1f389}{2728} {a1}Bienvenido al incre{ed}ble mundo de A2A!",
                     fr |-> "BONJOUR!!! {1f389}{2728} Bienvenue dans le monde merveilleux d'A2A!",
                     de |-> "HALLO!!! {1f389}{2728} Willkommen in der fantastischen Welt von A2A!",
                     ja |-> "{3053}{3093}{306b}{3061}{306f}{ff01}{ff01}{ff01} {1f389}{2728} A2A{306e}{7d20}{6674}{3089}{3057}{3044}{4e16}{754c}{3078}{3088}{3046}{3053}{305d}{ff01}"],
   multilingual |-> [en |-> "Hello (English) {2022} Hola (Espa{f1}ol) {2022} Bonjour (Fran{e7}ais) {2022} Hallo (Deutsch) {2022} {3053}{3093}{306b}{3061}{306f} ({65e5}{672c}{8a9e})",
                     es |-> "Hello (English) {2022} Hola (Espa{f1}ol) {2022} Bonjour (Fran{e7}ais) {2022} Hallo (Deutsch) {2022} {3053}{3093}{306b}{3061}{306f} ({65e5}{672c}{8a9e})",
                     fr |-> "Hello (English) {2022} Hola (Espa{f1}ol) {2022} Bonjour (Fran{e7}ais) {2022} Hallo (Deutsch) {2022} {3053}{3093}{306b}{3061}{306f} ({65e5}{672c}{8a9e})",
                     de |-> "Hello (English) {2022} Hola (Espa{f1}ol) {2022} Bonjour (Fran{e7}ais) {2022} Hallo (Deutsch) {2022} {3053}{3093}{306b}{3061}{306f} ({65e5}{672c}{8a9e})",
                     ja |-> "Hello (English) {2022} Hola (Espa{f1}ol) {2022} Bonjour (Fran{e7}ais) {2022} Hallo (Deutsch) {2022} {3053}{3093}{306b}{3061}{306f} ({65e5}{672c}{8a9e})"]]

Random_greetings ==
  [casual |-> [en |-> "Hey there! {1f44b}",
               es |-> "{a1}Hola! {1f44b}",
               fr |-> "Salut! {1f44b}",
               de |-> "Hallo! {1f44b}",
               ja |-> "{3084}{3042}! {1f44b}"],
   formal |-> [en |-> "Good day. I am pleased to make your acquaintance.",
               es |-> "Buenos d{ed}as. Es un placer conocerle.",
               fr |-> "Bonjour. Je suis ravi de faire votre connaissance.",
               de |-> "Guten Tag. Es freut mich, Sie kennenzulernen.",
               ja |-> "{3053}{3093}{306b}{3061}{306f}{3002}{304a}{4f1a}{3044}{3067}{304d}{3066}{5149}{6804}{3067}{3059}{3002}"],
   enthusiastic |-> [en |-> "HELLO THERE!!! {1f389}{2728} Welcome to the amazing world of A2A!",
                     es |-> "{a1}{a1}{a1}HOLA!!! {1f389}{2728} {a1}Bienvenido al incre{ed}ble mundo de A2A!",
                     fr |-> "BONJOUR!!! {1f389}{2728} Bienvenue dans le monde fantastique d'A2A!",
                     de |-> "HALLO!!! {1f389}{2728} Willkommen in der erstaunlichen Welt von A2A!",
                     ja |-> "HELLO THERE!!! {1f389}{2728} A2A{306e}{7d20}{6674}{3089}{3057}{3044}{4e16}{754c}{3078}{3088}{3046}{3053}{305d}{ff01}"],
   multilingual |-> [en |-> "Hello {2022} Hola {2022} Bonjour {2022} Hallo {2022} {3053}{3093}{306b}{3061}{306f}",
                     es |-> "Hello {2022} Hola {2022} Bonjour {2022} Hallo {2022} {3053}{3093}{306b}{3061}{306f}",
                     fr |-> "Hello {2022} Hola {2022} Bonjour {2022} Hallo {2022} {3053}{3093}{306b}{3061}{306f}",
                     de |-> "Hello {2022} Hola {2022} Bonjour {2022} Hallo {2022} {3053}{3093}{306b}{3061}{306f}",
                     ja |-> "Hello {2022} Hola {2022} Bonjour {2022} Hallo {2022} {3053}{3093}{306b}{3061}{306f}"]]

Time_greetings ==
  [dawn |-> [en |-> [casual |-> "Good early morning! The sun is just rising. {2600}{fe0f}",
                     formal |-> "Good morning. The day is beginning early.",
                     brief |-> "Early morning! {2600}{fe0f}"],
             es |-> [casual |-> "{a1}Buenos d{ed}as temprano! El sol est{e1} saliendo. {2600}{fe0f}",
                     formal |-> "Buenos d{ed}as. El d{ed}a est{e1} comenzando temprano.",
                     brief |-> "{a1}Madrugada! {2600}{fe0f}"],
             fr |-> [casual |-> "Bon petit matin! Le soleil se l{e8}ve. {2600}{fe0f}",
                     formal |-> "Bonjour. La journ{e9}e commence t{f4}t.",
                     brief |-> "Petit matin! {2600}{fe0f}"],
             de |-> [casual |-> "Guten fr{fc}hen Morgen! Die Sonne geht auf. {2600}{fe0f}",
                     formal |-> "Guten Morgen. Der Tag beginnt fr{fc}h.",
                     brief |-> "Fr{fc}her Morgen! {2600}{fe0f}"],
             ja |-> [casual |-> "{304a}{306f}{3088}{3046}{3054}{3056}{3044}{307e}{3059}{ff01}{592a}{967d}{304c}{6607}{3063}{3066}{3044}{307e}{3059}{3002}{2600}{fe0f}",
                     formal |-> "{304a}{306f}{3088}{3046}{3054}{3056}{3044}{307e}{3059}{3002}{4e00}{65e5}{304c}{65e9}{304f}{59cb}{307e}{308a}{307e}{3059}{3002}",
                     brief |-> "{65e9}{671d}{ff01}{2600}{fe0f}"]],
   morning |-> [en |-> [casual |-> "Good morning! Hope you're having a great start to your day! {2600}{fe0f}",
                        formal |-> "Good morning. I trust you are having a productive morning.",
                        brief |-> "Good morning! {2600}{fe0f}"],
                es |-> [casual |-> "{a1}Buenos d{ed}as! {a1}Espero que tengas un gran comienzo de d{ed}a! {2600}{fe0f}",
                        formal |-> "Buenos d{ed}as. Espero que tenga una ma{f1}ana productiva.",
                        brief |-> "{a1}Buenos d{ed}as! {2600}{fe0f}"],
                fr |-> [casual |-> "Bonjour! J'esp{e8}re que vous passez un bon d{e9}but de journ{e9}e! {2600}{fe0f}",
                        formal |-> "Bonjour. J'esp{e8}re que vous passez une matin{e9}e productive.",
                        brief |-> "Bonjour! {2600}{fe0f}"],
                de |-> [casual |-> "Guten Morgen! Ich hoffe, Sie haben einen guten Start in den Tag! {2600}{fe0f}",
                        formal |-> "Guten Morgen. Ich hoffe, Sie haben einen produktiven Morgen.",
                        brief |-> "Guten Morgen! {2600}{fe0f}"],
                ja |-> [casual |-> "{304a}{306f}{3088}{3046}{3054}{3056}{3044}{307e}{3059}{ff01}{7d20}{6674}{3089}{3057}{3044}{4e00}{65e5}{306e}{59cb}{307e}{308a}{3092}{ff01}{2600}{fe0f}",
                        formal |-> "{304a}{306f}{3088}{3046}{3054}{3056}{3044}{307e}{3059}{3002}{751f}{7523}{7684}{306a}{671d}{3092}{304a}{904e}{3054}{3057}{304f}{3060}{3055}{3044}{3002}",
                        brief |-> "{304a}{306f}{3088}{3046}{ff01}{2600}{fe0f}"]],
   noon |-> [en |-> [casual |-> "Good afternoon! Perfect time for lunch! {1f31e}",
                     formal |-> "Good afternoon. I hope your midday is going well.",
                     brief |-> "Good afternoon! {1f31e}"],
             es |-> [casual |-> "{a1}Buenas tardes! {a1}Momento perfecto para almorzar! {1f31e}",
                     formal |-> "Buenas tardes. Espero que su mediod{ed}a vaya bien.",
                     brief |-> "{a1}Buenas tardes! {1f31e}"],
             fr |-> [casual |-> "Bon apr{e8}s-midi! Parfait pour le d{e9}jeuner! {1f31e}",
                     formal |-> "Bon apr{e8}s-midi. J'esp{e8}re que votre midi se passe bien.",
                     brief |-> "Bon apr{e8}s-midi! {1f31e}"],
             de |-> [casual |-> "Guten Tag! Perfekte Zeit f{fc}rs Mittagessen! {1f31e}",
                     formal |-> "Guten Tag. Ich hoffe, Ihr Mittag verl{e4}uft gut.",
                     brief |-> "Guten Tag! {1f31e}"],
             ja |-> [casual |-> "{3053}{3093}{306b}{3061}{306f}{ff01}{663c}{98df}{306b}{6700}{9069}{306a}{6642}{9593}{3067}{3059}{306d}{ff01}{1f31e}",
                     formal |-> "{3053}{3093}{306b}{3061}{306f}{3002}{304a}{663c}{304c}{3046}{307e}{304f}{3044}{3063}{3066}{3044}{308b}{3053}{3068}{3092}{9858}{3044}{307e}{3059}{3002}",
                     brief |-> "{3053}{3093}{306b}{3061}{306f}{ff01}{1f31e}"]],
   afternoon |-> [en |-> [casual |-> "Good afternoon! Hope your day is going well! {1f324}{fe0f}",
                          formal |-> "Good afternoon. I trust you are having a productive day.",
                          brief |-> "Good afternoon! {1f324}{fe0f}"],
                  es |-> [casual |-> "{a1}Buenas tardes! {a1}Espero que tu d{ed}a vaya bien! {1f324}{fe0f}",
                          formal |-> "Buenas tardes. Espero que tenga un d{ed}a productivo.",
                          brief |-> "{a1}Buenas tardes! {1f324}{fe0f}"],
                  fr |-> [casual |-> "Bon apr{e8}s-midi! J'esp{e8}re que votre journ{e9}e se passe bien! {1f324}{fe0f}",
                          formal |-> "Bon apr{e8}s-midi. J'esp{e8}re que vous passez une journ{e9}e productive.",
                          brief |-> "Bon apr{e8}s-midi! {1f324}{fe0f}"],
                  de |-> [casual |-> "Guten Tag! Ich hoffe, Ihr Tag verl{e4}uft gut! {1f324}{fe0f}",
                          formal |-> "Guten Tag. Ich hoffe, Sie haben einen produktiven Tag.",
                          brief |-> "Guten Tag! {1f324}{fe0f}"],
                  ja |-> [casual |-> "{3053}{3093}{306b}{3061}{306f}{ff01}{826f}{3044}{4e00}{65e5}{3092}{304a}{904e}{3054}{3057}{304f}{3060}{3055}{3044}{ff01}{1f324}{fe0f}",
                          formal |-> "{3053}{3093}{306b}{3061}{306f}{3002}{751f}{7523}{7684}{306a}{4e00}{65e5}{3092}{304a}{904e}{3054}{3057}{304f}{3060}{3055}{3044}{3002}",
                          brief |-> "{3053}{3093}{306b}{3061}{306f}{ff01}{1f324}{fe0f}"]],
   evening |-> [en |-> [casual |-> "Good evening! Time to start winding down! {1f305}",
                        formal |-> "Good evening. I hope you are having a pleasant evening.",
                        brief |-> "Good evening! {1f305}"],
                es |-> [casual |-> "{a1}Buenas noches! {a1}Hora de comenzar a relajarse! {1f305}",
                        formal |-> "Buenas noches. Espero que tenga una tarde agradable.",
                        brief |-> "{a1}Buenas noches! {1f305}"],
                fr |-> [casual |-> "Bonsoir! Il est temps de commencer {e0} se d{e9}tendre! {1f305}",
                        formal |-> "Bonsoir. J'esp{e8}re que vous passez une soir{e9}e agr{e9}able.",
                        brief |-> "Bonsoir! {1f305}"],
                de |-> [casual |-> "Guten Abend! Zeit, sich zu entspannen! {1f305}",
                        formal |-> "Guten Abend. Ich hoffe, Sie haben einen angenehmen Abend.",
                        brief |-> "Guten Abend! {1f305}"],
                ja |-> [casual |-> "{3053}{3093}{3070}{3093}{306f}{ff01}{30ea}{30e9}{30c3}{30af}{30b9}{3059}{308b}{6642}{9593}{3067}{3059}{306d}{ff01}{1f305}",
                        formal |-> "{3053}{3093}{3070}{3093}{306f}{3002}{7d20}{6575}{306a}{591c}{3092}{304a}{904e}{3054}{3057}{304f}{3060}{3055}{3044}{3002}",
                        brief |-> "{3053}{3093}{3070}{3093}{306f}{ff01}{1f305}"]],
   night |-> [en |-> [casual |-> "Good evening! Getting late, but still time to relax! {1f319}",
                      formal |-> "Good evening. The day is drawing to a close.",
                      brief |-> "Good evening! {1f319}"],
              es |-> [casual |-> "{a1}Buenas noches! Se est{e1} haciendo tarde, {a1}pero a{fa}n hay tiempo para relajarse! {1f319}",
                      formal |-> "Buenas noches. El d{ed}a est{e1} llegando a su fin.",
                      brief |-> "{a1}Buenas noches! {1f319}"],
              fr |-> [casual |-> "Bonsoir! Il se fait tard, mais il y a encore du temps pour se d{e9}tendre! {1f319}",
                      formal |-> "Bonsoir. La journ{e9}e touche {e0} sa fin.",
                      brief |-> "Bonsoir! {1f319}"],
              de |-> [casual |-> "Guten Abend! Es wird sp{e4}t, aber es ist noch Zeit zum Entspannen! {1f319}",
                      formal |-> "Guten Abend. Der Tag neigt sich dem Ende zu.",
                      brief |-> "Guten Abend! {1f319}"],
              ja |-> [casual |-> "{3053}{3093}{3070}{3093}{306f}{ff01}{9045}{304f}{306a}{308a}{307e}{3057}{305f}{304c}{3001}{307e}{3060}{30ea}{30e9}{30c3}{30af}{30b9}{3059}{308b}{6642}{9593}{304c}{3042}{308a}{307e}{3059}{ff01}{1f319}",
                      formal |-> "{3053}{3093}{3070}{3093}{306f}{3002}{4e00}{65e5}{304c}{7d42}{308f}{308a}{306b}{8fd1}{3065}{3044}{3066}{3044}{307e}{3059}{3002}",
                      brief |-> "{3053}{3093}{3070}{3093}{306f}{ff01}{1f319}"]],
   late_night |-> [en |-> [casual |-> "Good night! You're up quite late! {1f31b}",
                           formal |-> "Good evening. You are up rather late tonight.",
                           brief |-> "Late night! {1f31b}"],
                   es |-> [casual |-> "{a1}Buenas noches! {a1}Est{e1}s despierto bastante tarde! {1f31b}",
                           formal |-> "Buenas noches. Est{e1} despierto bastante tarde esta noche.",
                           brief |-> "{a1}Noche tard{ed}a! {1f31b}"],
                   fr |-> [casual |-> "Bonne nuit! Vous {ea}tes debout assez tard! {1f31b}",
                           formal |-> "Bonsoir. Vous {ea}tes debout assez tard ce soir.",
                           brief |-> "Nuit tardive! {1f31b}"],
                   de |-> [casual |-> "Gute Nacht! Sie sind ziemlich sp{e4}t auf! {1f31b}",
                           formal |-> "Guten Abend. Sie sind heute Abend ziemlich sp{e4}t wach.",
                           brief |-> "Sp{e4}te Nacht! {1f31b}"],
                   ja |-> [casual |-> "{3053}{3093}{3070}{3093}{306f}{ff01}{304b}{306a}{308a}{9045}{304f}{307e}{3067}{8d77}{304d}{3066}{3044}{307e}{3059}{306d}{ff01}{1f31b}",
                           formal |-> "{3053}{3093}{3070}{3093}{306f}{3002}{4eca}{591c}{306f}{9045}{304f}{307e}{3067}{8d77}{304d}{3066}{3044}{3089}{3063}{3057}{3083}{3044}{307e}{3059}{306d}{3002}",
                           brief |-> "{6df1}{591c}{ff01}{1f31b}"]]]


-----------------------------------------------------------------------------
(* Python values.                                                          *)

\* None where a string is expected (an argument left out, a JSON null).
None == "{None}"

\* The strings Python's `x or default` replaces by the default.
Falsy(v) == v \in {None, ""}

\* dict.get(key, default)
Get(d, key, default) == IF key \in DOMAIN d THEN d[key] ELSE default

\* dict.update(): base with every entry of extra added or overwritten.
Update(base, extra) == extra @@ base

\* The empty dict {}.
EmptyDict == <<>>

\* JSON values of a field that clients may fill with several types.
JNull      == <<"null", 0>>
JInt(n)    == <<"int", n>>
JList(seq) == <<"list", seq>>

\* `x in seq` for a Python list of strings.
InList(x, seq) == \E i \in 1..Len(seq) : seq[i] = x

\* [x for x in seq if x not in excluded]
RECURSIVE Without(_, _)
Without(seq, excluded) ==
  IF seq = <<>> THEN <<>>
  ELSE IF InList(Head(seq), excluded) THEN Without(Tail(seq), excluded)
       ELSE <<Head(seq)>> \o Without(Tail(seq), excluded)

\* A JSON-RPC error object, as both _create_error_response methods build it.
ErrorResponse(code, message) == [error |-> [code |-> code, message |-> message]]

IsError(r) == "error" \in DOMAIN r

-----------------------------------------------------------------------------
(* GreetingStyleExtension (helloworld_Ext/greeting_style_extension.py).    *)

Style_supported_styles    == {"casual", "formal", "enthusiastic", "multilingual"}
Style_supported_languages == {"en", "es", "fr", "de", "ja"}
Style_default_style       == "casual"
Style_default_language    == "en"

\* A mutation of get_greeting: any unsupported argument resets both to the defaults.
get_greeting_resets_both(style, language) ==
  IF style \in Style_supported_styles /\ language \in Style_supported_languages
  THEN Style_greetings[style][language]
  ELSE Style_greetings[Style_default_style][Style_default_language]

\* A mutation of get_greeting: the language is validated and then not used.
get_greeting_ignores_language(style, language) ==
  LET s == IF style \in Style_supported_styles THEN style ELSE Style_default_style
  IN  Style_greetings[s][Style_default_language]

\* GreetingStyleExtension.get_greeting(style, language)
get_greeting(style, language) ==
  LET s1 == IF Falsy(style) THEN Style_default_style ELSE style
      l1 == IF Falsy(language) THEN Style_default_language ELSE language
      s2 == IF s1 \notin Style_supported_styles THEN Style_default_style ELSE s1
      l2 == IF l1 \notin Style_supported_languages THEN Style_default_language ELSE l1
  IN  IF s2 \in DOMAIN Style_greetings /\ l2 \in DOMAIN Style_greetings[s2]
      THEN Style_greetings[s2][l2]
      ELSE Style_greetings[Style_default_style][Style_default_language]  \* KeyError

-----------------------------------------------------------------------------
(* Python's random module: one generator shared by the whole process.      *)
(* The Mersenne Twister is abstracted to a deterministic generator over    *)
(* RngStates states: seeding fixes the state, every draw advances it.      *)

RngStates == 20

\* random.seed(n) for an int n.
SeedState(n) == (7 * n + 3) % RngStates

\* The state after one draw.
Advance(g) == (3 * g + 1) % RngStates

\* random.choice(seq), seq not empty: seq[_randbelow(len(seq))].
Choice(g, seq) ==
  LET g1 == Advance(g)
  IN  [value |-> seq[(g1 % Len(seq)) + 1], rng |-> g1]

\* The seeds random.seed() accepts; it raises TypeError on any other value
\* (a JSON list or object).
SeedUsable(seed) == seed[1] \in {"null", "int"}

-----------------------------------------------------------------------------
(* RandomMethodExtension (helloworld_Ext/random_method_extension.py).      *)

Random_all_styles    == <<"casual", "formal", "enthusiastic", "multilingual">>
Random_all_languages == <<"en", "es", "fr", "de", "ja">>

\* uuid.uuid4().hex[:8]: fresh on every call, drawn from the OS, not from random.
Uuids == {"0a1b2c3d", "4e5f6a7b"}

MissingId == "Missing required parameter: id"

\* The message object handle_random_method returns on success.
\* A mutation of the response: the seed is never recorded.
RandomMessageNoSeed(uuid, style, language, seed) ==
  [kind      |-> "message",
   messageId |-> "msg-random-" \o uuid,
   parts     |-> <<[kind |-> "text", text |-> Random_greetings[style][language]]>>,
   role      |-> "agent",
   metadata  |-> [randomSelection |-> [style |-> style, language |-> language]]]

\* The message handle_random_method returns (lines 83-109).
RandomMessage(uuid, style, language, seed) ==
  [kind      |-> "message",
   messageId |-> "msg-random-" \o uuid,
   parts     |-> <<[kind |-> "text", text |-> Random_greetings[style][language]]>>,
   role      |-> "agent",
   metadata  |-> [randomSelection |->
                    IF seed # JNull
                    THEN [style |-> style, language |-> language, seed |-> seed]
                    ELSE [style |-> style, language |-> language]]]

\* A well-formed exclusion value is a list; `s not in x` raises TypeError on
\* a value that is not iterable.
Iterable(x) == x[1] = "list"

\* A mutation of Exhausted: a single remaining option counts as none.
ExhaustedOffByOne(available_styles, available_languages) ==
  Len(available_styles) <= 1 \/ Len(available_languages) <= 1

\* `not available_styles or not available_languages`
Exhausted(available_styles, available_languages) ==
  available_styles = <<>> \/ available_languages = <<>>

\* handle_random_method from the filtering of the options on (lines 71-111),
\* with the generator in state g.
RandomAfterSeed(p, g, uuid) ==
  LET exclude_styles    == Get(p, "excludeStyles", JList(<<>>))
      exclude_languages == Get(p, "excludeLanguages", JList(<<>>))
      seed              == Get(p, "seed", JNull)
  IN  IF ~Iterable(exclude_styles) \/ ~Iterable(exclude_languages)
      THEN [response |-> ErrorResponse(-32002,
                           "Random generation failed: argument is not iterable"),
            rng |-> g]
      ELSE
      LET available_styles    == Without(Random_all_styles, exclude_styles[2])
          available_languages == Without(Random_all_languages, exclude_languages[2])
      IN  IF Exhausted(available_styles, available_languages)
          THEN [response |-> ErrorResponse(-32001,
                               "No valid style/language combinations available"),
                rng |-> g]
          ELSE LET s == Choice(g, available_styles)
                   l == Choice(s.rng, available_languages)
               IN  [response |-> RandomMessage(uuid, s.value, l.value, seed),
                    rng      |-> l.rng]

\* A mutation of handle_random_method: the seed is read but random.seed() is not called.
handle_random_method_unseeded(p, g, uuid) ==
  IF "id" \notin DOMAIN p
  THEN [response |-> ErrorResponse(-32602, "Invalid params: " \o MissingId), rng |-> g]
  ELSE RandomAfterSeed(p, g, uuid)

\* A mutation of handle_random_method: the TypeError of random.seed() is caught
\* with the ValueError of the id check.
handle_random_method_seed_error_as_invalid(p, g, uuid) ==
  IF "id" \notin DOMAIN p
  THEN [response |-> ErrorResponse(-32602, "Invalid params: " \o MissingId), rng |-> g]
  ELSE LET seed == Get(p, "seed", JNull)
       IN  IF ~SeedUsable(seed)
           THEN [response |-> ErrorResponse(-32602,
                    "Invalid params: unsupported seed type"),
                 rng |-> g]
           ELSE RandomAfterSeed(p, IF seed # JNull THEN SeedState(seed[2]) ELSE g, uuid)

\* RandomMethodExtension.handle_random_method(params), called with the shared
\* generator in state g: the response and the state the generator is left in.
handle_random_method(p, g, uuid) ==
  IF "id" \notin DOMAIN p
  THEN [response |-> ErrorResponse(-32602, "Invalid params: " \o MissingId), rng |-> g]
  ELSE LET seed == Get(p, "seed", JNull)
       IN  IF ~SeedUsable(seed)
           THEN [response |-> ErrorResponse(-32002,
                    "Random generation failed: unsupported seed type"),
                 rng |-> g]
           ELSE RandomAfterSeed(p, IF seed # JNull THEN SeedState(seed[2]) ELSE g, uuid)

-----------------------------------------------------------------------------
(* TimeGreetingExtension (helloworld_method_ext/time_greeting_extension.py) *)

Time_languages == {"en", "es", "fr", "de", "ja"}
Time_styles    == {"casual", "formal", "brief"}
Time_formats   == {"12h", "24h"}

\* A mutation of get_time_period: the lower bounds are exclusive and the upper
\* bounds inclusive.
get_time_period_exclusive(hour) ==
  IF 5 < hour /\ hour <= 7 THEN "dawn"
  ELSE IF 7 < hour /\ hour <= 12 THEN "morning"
  ELSE IF hour = 12 THEN "noon"
  ELSE IF 13 < hour /\ hour <= 18 THEN "afternoon"
  ELSE IF 18 < hour /\ hour <= 21 THEN "evening"
  ELSE IF 21 < hour /\ hour <= 23 THEN "night"
  ELSE "late_night"

\* TimeGreetingExtension.get_time_period(hour)
get_time_period(hour) ==
  IF 5 <= hour /\ hour < 7 THEN "dawn"
  ELSE IF 7 <= hour /\ hour < 12 THEN "morning"
  ELSE IF hour = 12 THEN "noon"
  ELSE IF 13 <= hour /\ hour < 18 THEN "afternoon"
  ELSE IF 18 <= hour /\ hour < 21 THEN "evening"
  ELSE IF 21 <= hour /\ hour < 23 THEN "night"
  ELSE "late_night"

\* The zone names the host's time-zone database resolves.
KnownZones == {"UTC", "GMT", "America/New_York", "America/Los_Angeles",
               "Europe/London", "Europe/Paris", "Asia/Tokyo", "Australia/Sydney"}

\* What the module-level import left in `zoneinfo`: the standard module, pytz,
\* or None.
TzSupports == {"zoneinfo", "pytz", "none"}

\* TimeGreetingExtension.get_current_time_info(timezone_str).  env is what the
\* host provides: env.support, and env.now, the wall-clock reading [hour, minute]
\* that datetime.now() returns in this call.
get_current_time_info(timezone_str, env) ==
  IF timezone_str = "local"
  THEN [datetime |-> env.now, timezone |-> "local", hour |-> env.now.hour,
        time_period |-> get_time_period(env.now.hour)]
  ELSE IF env.support = "none"
  THEN [datetime |-> env.now, timezone |-> "local (timezone support unavailable)",
        hour |-> env.now.hour, time_period |-> get_time_period(env.now.hour)]
  ELSE IF timezone_str \in KnownZones
  THEN [datetime |-> env.now, timezone |-> timezone_str, hour |-> env.now.hour,
        time_period |-> get_time_period(env.now.hour)]
  ELSE \* ZoneInfo() / pytz.timezone() raised
       [datetime |-> env.now, timezone |-> "local (fallback)", hour |-> env.now.hour,
        time_period |-> get_time_period(env.now.hour),
        error |-> "Invalid timezone '" \o timezone_str \o "', using local time"]

Digits == "0123456789"

\* "%02d" for 0 <= n <= 99
TwoDigits(n) == SubSeq(Digits, (n \div 10) + 1, (n \div 10) + 1)
                  \o SubSeq(Digits, (n % 10) + 1, (n % 10) + 1)

\* str.lstrip('0')
RECURSIVE LStripZeros(_)
LStripZeros(s) ==
  IF Len(s) > 0 /\ SubSeq(s, 1, 1) = "0" THEN LStripZeros(Tail(s)) ELSE s

\* TimeGreetingExtension.format_time(dt, format_type)
format_time(dt, format_type) ==
  IF format_type = "24h"
  THEN TwoDigits(dt.hour) \o ":" \o TwoDigits(dt.minute)
  ELSE LET h12 == IF dt.hour % 12 = 0 THEN 12 ELSE dt.hour % 12
       IN  LStripZeros(TwoDigits(h12) \o ":" \o TwoDigits(dt.minute) \o " "
                         \o (IF dt.hour < 12 THEN "AM" ELSE "PM"))

\* A mutation of get_greeting: the catalog is indexed by style before language,
\* so that every lookup raises KeyError and ends in the fallback.
time_get_greeting_style_first(time_period, language, style) ==
  IF time_period \in DOMAIN Time_greetings
  THEN Time_greetings[time_period]["en"]["casual"]
  ELSE "Hello!"

\* TimeGreetingExtension.get_greeting(time_period, language, style)
time_get_greeting(time_period, language, style) ==
  IF /\ time_period \in DOMAIN Time_greetings
     /\ language \in DOMAIN Time_greetings[time_period]
     /\ style \in DOMAIN Time_greetings[time_period][language]
  THEN Time_greetings[time_period][language][style]
  ELSE IF time_period \in DOMAIN Time_greetings
       THEN Time_greetings[time_period]["en"]["casual"]
       ELSE "Hello!"

\* s.split('/')[-1]
RECURSIVE LastSegment(_)
LastSegment(s) == IF Contains(s, "/") THEN LastSegment(Tail(s)) ELSE s

\* The " It's currently ..." sentence appended when includeTime is set.
TimeSuffix(time_info, format_type) ==
  LET formatted_time == format_time(time_info.datetime, format_type)
  IN  IF time_info.timezone = "local"
      THEN " It's currently " \o formatted_time \o "."
      ELSE " It's currently " \o formatted_time \o " in "
             \o LastSegment(time_info.timezone) \o "."

\* A mutation of ClampStyle: the style is used as it came.
ClampStyleForgotten(style) == style

\* `if style not in ["casual", "formal", "brief"]: style = "casual"`
ClampStyle(style) == IF style \notin Time_styles THEN "casual" ELSE style

\* `if format_type not in ["12h", "24h"]: format_type = "12h"`
ClampFormat(format_type) == IF format_type \notin Time_formats THEN "12h" ELSE format_type

\* The message object handle_time_greeting_method returns on success
\* (lines 329-366).
TimeMessage(time_info, language, style, format_type, include_time, uuid) ==
  LET greeting == time_get_greeting(time_info.time_period, language, style)
      text     == IF include_time
                  THEN greeting \o TimeSuffix(time_info, format_type)
                  ELSE greeting
  IN  [kind      |-> "message",
       messageId |-> "msg-time-greeting-" \o uuid,
       parts     |-> <<[kind |-> "text", text |-> text]>>,
       role      |-> "agent",
       metadata  |-> [timeContext |->
            [currentTime |-> format_time(time_info.datetime, format_type),
             timezone    |-> time_info.timezone,
             timePeriod  |-> time_info.time_period,
             hour        |-> time_info.hour,
             style       |-> style,
             language    |-> language]]]

\* A mutation of TimeAfterLanguage: a timezone the conversion rejects is not
\* reported; the greeting is computed from the local time of the fallback.
TimeAfterLanguageSoft(p, env, uuid) ==
  TimeMessage(get_current_time_info(Get(p, "timezone", "local"), env),
              Get(p, "language", "en"), ClampStyle(Get(p, "style", "casual")),
              ClampFormat(Get(p, "format", "12h")), Get(p, "includeTime", TRUE), uuid)

\* handle_time_greeting_method once the language has been accepted (lines 317-366).
TimeAfterLanguage(p, env, uuid) ==
  LET timezone_str == Get(p, "timezone", "local")
      style        == ClampStyle(Get(p, "style", "casual"))
      format_type  == ClampFormat(Get(p, "format", "12h"))
      time_info    == get_current_time_info(timezone_str, env)
  IN  IF /\ "error" \in DOMAIN time_info
         /\ timezone_str \notin {"local", "local (fallback)"}
      THEN ErrorResponse(-32001, "Invalid timezone: " \o timezone_str)
      ELSE TimeMessage(time_info, Get(p, "language", "en"), style, format_type,
                       Get(p, "includeTime", TRUE), uuid)

\* A mutation of TimeAfterId: the time is computed, and a rejected timezone
\* reported, before the language is validated.
TimeAfterIdLanguageLast(p, env, uuid) ==
  LET timezone_str == Get(p, "timezone", "local")
      language     == Get(p, "language", "en")
  IN  IF /\ "error" \in DOMAIN get_current_time_info(timezone_str, env)
         /\ timezone_str \notin {"local", "local (fallback)"}
      THEN ErrorResponse(-32001, "Invalid timezone: " \o timezone_str)
      ELSE IF language \notin Time_languages
      THEN ErrorResponse(-32003, "Unsupported language: " \o language)
      ELSE TimeAfterLanguage(p, env, uuid)

\* handle_time_greeting_method from the reading of the parameters on (lines 306-366).
TimeAfterId(p, env, uuid) ==
  LET language == Get(p, "language", "en")
  IN  IF language \notin Time_languages
      THEN ErrorResponse(-32003, "Unsupported language: " \o language)
      ELSE TimeAfterLanguage(p, env, uuid)

\* A mutation of handle_time_greeting_method: the language is validated before
\* the id is looked for.
handle_time_greeting_method_language_first(p, env, uuid) ==
  IF Get(p, "language", "en") \notin Time_languages
  THEN ErrorResponse(-32003, "Unsupported language: " \o Get(p, "language", "en"))
  ELSE IF "id" \notin DOMAIN p
       THEN ErrorResponse(-32602, "Invalid params: " \o MissingId)
       ELSE TimeAfterId(p, env, uuid)

\* TimeGreetingExtension.handle_time_greeting_method(params)
handle_time_greeting_method(p, env, uuid) ==
  IF "id" \notin DOMAIN p
  THEN ErrorResponse(-32602, "Invalid params: " \o MissingId)
  ELSE TimeAfterId(p, env, uuid)

-----------------------------------------------------------------------------
(* RequestContext, as the a2a framework hands it to execute().             *)
(* A context is a record                                                   *)
(*   has_active_extensions  hasattr(context, 'active_extensions')          *)
(*   active_extensions      the URIs listed in the activation header       *)
(*   task_id                context.task_id                                *)
(*   has_message            context.message is not None                    *)
(*   text                   get_message_text(context.message)              *)
(*   metadata               context.message.metadata: NoneValue or a dict  *)

NoneValue == [isNone |-> TRUE]

\* Python truth of a dict-or-None value: None and {} are false.
Truthy(d) == d # NoneValue /\ DOMAIN d # {}

MessageText(ctx) == IF ctx.has_message THEN ctx.text ELSE ""

\* metadata.get('extensions', {}).get(uri, {}) behind the guards
\* `context.message` and `if metadata`, which all three extractions share.
MetadataEntry(ctx, uri) ==
  IF ctx.has_message /\ Truthy(ctx.metadata)
  THEN Get(Get(ctx.metadata, "extensions", EmptyDict), uri, EmptyDict)
  ELSE EmptyDict

\* new_agent_text_message(text)
AgentTextMessage(text) == [kind |-> "message", role |-> "agent", text |-> text]

\* HelloWorldAgent.invoke()
HelloWorld == "Hello World"

NoRequest  == [none |-> "request"]
NoParams   == [none |-> "params"]
NoResponse == [none |-> "response"]
NoCall     == [none |-> "call"]
NoRef      == [none |-> "reference"]
NoMain     == [none |-> "main"]
NoCard     == [none |-> "card"]

-----------------------------------------------------------------------------
(* helloworld_Ext/agent_executor.py                                        *)

random_keywords == {"random greeting", "surprise me", "random hello", "generate random"}

\* A mutation of _is_random_method_active: the header check is skipped.
is_random_method_active_keywords_only(ctx, message_text) ==
  ContainsAny(message_text, random_keywords)

\* HelloWorldAgentExecutor._is_random_method_active(context, message_text)
is_random_method_active(ctx, message_text) ==
  \/ ctx.has_active_extensions /\ RandomMethodURI \in ctx.active_extensions
  \/ ContainsAny(message_text, random_keywords)

\* A mutation of the negation test: only 'no <name>' counts.
NegatedByNoOnly(message_text, name) == Contains(message_text, "no " \o name)

\* 'no <name>' in message_text or 'not <name>' in message_text
Negated(message_text, name) ==
  Contains(message_text, "no " \o name) \/ Contains(message_text, "not " \o name)

\* The text-parsing half of _extract_random_method_parameters (lines 127-156).
RandomParamsFromText(base, message_text) ==
  LET exclude_styles ==
        (IF Negated(message_text, "formal") THEN <<"formal">> ELSE <<>>)
        \o (IF Negated(message_text, "enthusiastic") THEN <<"enthusiastic">> ELSE <<>>)
        \o (IF Negated(message_text, "casual") THEN <<"casual">> ELSE <<>>)
        \o (IF Negated(message_text, "multilingual") THEN <<"multilingual">> ELSE <<>>)
      exclude_languages ==
        (IF Negated(message_text, "english") THEN <<"en">> ELSE <<>>)
        \o (IF Negated(message_text, "spanish") THEN <<"es">> ELSE <<>>)
        \o (IF Negated(message_text, "french") THEN <<"fr">> ELSE <<>>)
        \o (IF Negated(message_text, "german") THEN <<"de">> ELSE <<>>)
        \o (IF Negated(message_text, "japanese") THEN <<"ja">> ELSE <<>>)
      p1 == IF exclude_styles # <<>>
            THEN Update(base, [excludeStyles |-> JList(exclude_styles)]) ELSE base
  IN  IF exclude_languages # <<>>
      THEN Update(p1, [excludeLanguages |-> JList(exclude_languages)]) ELSE p1

\* A mutation of _extract_random_method_parameters: a metadata entry is returned
\* as it is, without the base {id}.
extract_random_method_parameters_entry_only(ctx, message_text) ==
  LET extension_params == MetadataEntry(ctx, RandomMethodURI)
  IN  IF DOMAIN extension_params # {}
      THEN extension_params
      ELSE RandomParamsFromText([id |-> ctx.task_id], message_text)

\* A mutation of _extract_random_method_parameters: the text is parsed first and
\* the metadata entry is merged over the result.
extract_random_method_parameters_merged(ctx, message_text) ==
  Update(RandomParamsFromText([id |-> ctx.task_id], message_text),
         MetadataEntry(ctx, RandomMethodURI))

\* HelloWorldAgentExecutor._extract_random_method_parameters(context, message_text)
extract_random_method_parameters(ctx, message_text) ==
  LET base             == [id |-> ctx.task_id]
      extension_params == MetadataEntry(ctx, RandomMethodURI)
  IN  IF DOMAIN extension_params # {}
      THEN Update(base, extension_params)
      ELSE RandomParamsFromText(base, message_text)

\* HelloWorldAgentExecutor._is_extension_active_from_headers(context)
is_extension_active_from_headers(ctx) ==
  /\ ctx.has_active_extensions
  /\ ctx.active_extensions # {}
  /\ GreetingStyleURI \in ctx.active_extensions

\* HelloWorldAgentExecutor._extract_extension_parameters_from_metadata(context)
extract_extension_parameters_from_metadata(ctx) == MetadataEntry(ctx, GreetingStyleURI)

greeting_keywords == {"formal", "enthusiastic", "multilingual", "casual",
                      "spanish", "french", "german", "japanese"}

\* The style and the language the keyword fallback reads from the text (lines 69-88).
StyleFromText(message_text_lower) ==
  IF Contains(message_text_lower, "formal") THEN "formal"
  ELSE IF Contains(message_text_lower, "enthusiastic") THEN "enthusiastic"
  ELSE IF Contains(message_text_lower, "multilingual") THEN "multilingual"
  ELSE "casual"

LanguageFromText(message_text_lower) ==
  IF ContainsAny(message_text_lower, {"spanish", "espa{f1}ol"}) THEN "es"
  ELSE IF ContainsAny(message_text_lower, {"french", "fran{e7}ais"}) THEN "fr"
  ELSE IF ContainsAny(message_text_lower, {"german", "deutsch"}) THEN "de"
  ELSE IF ContainsAny(message_text_lower, {"japanese", "{65e5}{672c}{8a9e}"}) THEN "ja"
  ELSE "en"

\* The keyword fallback of the greeting-style branch (lines 68-94).
KeywordFallback(message_text_lower) ==
  IF ContainsAny(message_text_lower, greeting_keywords)
  THEN get_greeting(StyleFromText(message_text_lower),
                    LanguageFromText(message_text_lower))
  ELSE HelloWorld

\* A mutation of the greeting-style branch: a metadata entry is used whether or
\* not the header lists the extension.
GreetingStyleBranchEntryFirst(ctx, message_text_lower) ==
  LET extension_params == extract_extension_parameters_from_metadata(ctx)
  IN  IF DOMAIN extension_params # {}
      THEN get_greeting(Get(extension_params, "style", "casual"),
                        Get(extension_params, "language", "en"))
      ELSE KeywordFallback(message_text_lower)

\* The greeting-style branch of execute (lines 57-94): the text of the answer.
GreetingStyleBranch(ctx, message_text_lower) ==
  LET extension_active == is_extension_active_from_headers(ctx)
      extension_params == extract_extension_parameters_from_metadata(ctx)
  IN  IF extension_active /\ DOMAIN extension_params # {}
      THEN get_greeting(Get(extension_params, "style", "casual"),
                        Get(extension_params, "language", "en"))
      ELSE KeywordFallback(message_text_lower)

\* The text execute() builds from a handle_random_method response (lines 46-54).
RandomResult(r) ==
  IF IsError(r) THEN "Error: " \o r.error.message
  ELSE r.parts[1].text \o " [Style: " \o r.metadata.randomSelection.style
         \o ", Language: " \o r.metadata.randomSelection.language \o "]"

-----------------------------------------------------------------------------
(* helloworld_method_ext/agent_executor.py                                 *)

time_keywords == {"time greeting", "good morning", "good afternoon", "good evening",
                  "what time is it", "current time greeting", "greet me based on time",
                  "time based greeting", "greeting with time"}

\* A mutation of _is_time_greeting_active: keywords are matched as whole messages.
is_time_greeting_active_exact(ctx, message_text) ==
  \/ ctx.has_active_extensions /\ TimeGreetingURI \in ctx.active_extensions
  \/ message_text \in time_keywords

\* HelloWorldAgentExecutor._is_time_greeting_active(context, message_text)
is_time_greeting_active(ctx, message_text) ==
  \/ ctx.has_active_extensions /\ TimeGreetingURI \in ctx.active_extensions
  \/ ContainsAny(message_text, time_keywords)

\* timezone_mappings and language_mappings, in dict order: <<keyword, value>>.
timezone_mappings == <<<<"utc", "UTC">>, <<"gmt", "GMT">>,
                       <<"new york", "America/New_York">>,
                       <<"los angeles", "America/Los_Angeles">>,
                       <<"london", "Europe/London">>, <<"paris", "Europe/Paris">>,
                       <<"tokyo", "Asia/Tokyo">>, <<"sydney", "Australia/Sydney">>>>
language_mappings == <<<<"spanish", "es">>, <<"espa{f1}ol", "es">>,
                       <<"french", "fr">>, <<"fran{e7}ais", "fr">>,
                       <<"german", "de">>, <<"deutsch", "de">>,
                       <<"japanese", "ja">>, <<"{65e5}{672c}{8a9e}", "ja">>>>

\* A mutation of FirstMatch: the entry whose keyword occurs first in the text wins.
FirstMatchInText(message_text, mapping) ==
  LET hits  == {i \in 1..Len(mapping) : Contains(message_text, mapping[i][1])}
      At(i) == CHOOSE n \in 1..(Len(message_text) - Len(mapping[i][1]) + 1) :
                 /\ SubSeq(message_text, n, n + Len(mapping[i][1]) - 1) = mapping[i][1]
                 /\ \A m \in 1..(n - 1) :
                      SubSeq(message_text, m, m + Len(mapping[i][1]) - 1) # mapping[i][1]
  IN  IF hits = {} THEN <<>>
      ELSE <<mapping[CHOOSE i \in hits : \A j \in hits : At(i) <= At(j)][2]>>

\* for keyword, value in mapping.items(): if keyword in text: ...; break
\* The value of the first entry whose keyword occurs, as <<value>>, or <<>>.
FirstMatch(message_text, mapping) ==
  LET hits == {i \in 1..Len(mapping) : Contains(message_text, mapping[i][1])}
  IN  IF hits = {} THEN <<>>
      ELSE <<mapping[CHOOSE i \in hits : \A j \in hits : i <= j][2]>>

\* A mutation of the text parsing: the style "brief" also leaves the time out.
TimeParamsFromTextBriefNoTime(base, message_text) ==
  LET tz   == FirstMatch(message_text, timezone_mappings)
      lang == FirstMatch(message_text, language_mappings)
      p1 == IF tz # <<>> THEN Update(base, [timezone |-> tz[1]]) ELSE base
      p2 == Update(p1, [style |-> IF Contains(message_text, "formal") THEN "formal"
                                  ELSE IF Contains(message_text, "brief") THEN "brief"
                                  ELSE "casual"])
      p3 == IF lang # <<>> THEN Update(p2, [language |-> lang[1]]) ELSE p2
      p4 == IF ContainsAny(message_text, {"24 hour", "24h", "military time"})
            THEN Update(p3, [format |-> "24h"]) ELSE p3
  IN  IF ContainsAny(message_text, {"no time", "without time", "brief"})
      THEN Update(p4, [includeTime |-> FALSE]) ELSE p4

\* The text-parsing half of _extract_time_greeting_parameters (lines 95-142).
TimeParamsFromText(base, message_text) ==
  LET tz   == FirstMatch(message_text, timezone_mappings)
      lang == FirstMatch(message_text, language_mappings)
      p1 == IF tz # <<>> THEN Update(base, [timezone |-> tz[1]]) ELSE base
      p2 == Update(p1, [style |-> IF Contains(message_text, "formal") THEN "formal"
                                  ELSE IF Contains(message_text, "brief") THEN "brief"
                                  ELSE "casual"])
      p3 == IF lang # <<>> THEN Update(p2, [language |-> lang[1]]) ELSE p2
      p4 == IF ContainsAny(message_text, {"24 hour", "24h", "military time"})
            THEN Update(p3, [format |-> "24h"]) ELSE p3
  IN  IF ContainsAny(message_text, {"no time", "without time"})
      THEN Update(p4, [includeTime |-> FALSE]) ELSE p4

\* A mutation of _extract_time_greeting_parameters: the text is parsed first and
\* the metadata entry is merged over the result.
extract_time_greeting_parameters_merged(ctx, message_text) ==
  Update(TimeParamsFromText([id |-> ctx.task_id], message_text),
         MetadataEntry(ctx, TimeGreetingURI))

\* HelloWorldAgentExecutor._extract_time_greeting_parameters(context, message_text)
extract_time_greeting_parameters(ctx, message_text) ==
  LET base             == [id |-> ctx.task_id]
      extension_params == MetadataEntry(ctx, TimeGreetingURI)
  IN  IF DOMAIN extension_params # {}
      THEN Update(base, extension_params)
      ELSE TimeParamsFromText(base, message_text)

-----------------------------------------------------------------------------
(* The inputs the model draws from.                                        *)

\* The dicts that hold key with one of values, and the dict without key.
Optional(key, values) == {EmptyDict} \cup {[k \in {key} |-> v] : v \in values}

TaskIds == {"task-1"}

ExtOpenings == {"Hello", "Surprise me", "a RANDOM greeting"}
ExtEndings  == {"", " in formal French", " not formal, no spanish", " informal",
                " en Espa{f1}ol",
                " no formal no casual not enthusiastic not multilingual"}
ExtTexts    == {a \o b : a \in ExtOpenings, b \in ExtEndings} \cup {""}

AllStylesList    == <<"formal", "enthusiastic", "casual", "multilingual">>
AllLanguagesList == <<"ja", "de", "fr", "es", "en", "it">>

\* What a client may send under the random-method URI.
RandomEntries ==
  {EmptyDict, [seed |-> JInt(1)], [excludeStyles |-> JList(<<"formal">>)],
   [id |-> "meta-id", excludeLanguages |-> JList(AllLanguagesList)],
   [excludeStyles |-> JList(AllStylesList), seed |-> JInt(2)]}

\* What a client may send under the greeting-style URI.
StyleEntries == {[style |-> "formal"], [style |-> "enthusiastic", language |-> "ja"]}

ExtMetadata ==
  {NoneValue, EmptyDict, [trace |-> "t1"]}
    \cup {[extensions |-> [u \in {RandomMethodURI} |-> e]] : e \in RandomEntries}
    \cup {[extensions |-> [u \in {GreetingStyleURI} |-> e]] : e \in StyleEntries}
    \cup {[extensions |-> [u \in {GreetingStyleURI, RandomMethodURI} |->
                              IF u = RandomMethodURI THEN [seed |-> JInt(1)]
                              ELSE [style |-> "formal"]]]}

ExtActiveLists == {{}, {RandomMethodURI}, {OtherURI, GreetingStyleURI}}

\* The request contexts: without the header attribute the list does not exist,
\* and without a message there is neither text nor metadata.
Contexts(activeLists, texts, metadatas) ==
  {c \in [has_active_extensions : BOOLEAN, active_extensions : activeLists,
          task_id : TaskIds, has_message : BOOLEAN, text : texts,
          metadata : metadatas] :
     /\ ~c.has_active_extensions => c.active_extensions = {}
     /\ ~c.has_message => c.text = "" /\ c.metadata = NoneValue}

ExtContexts == Contexts(ExtActiveLists, ExtTexts, ExtMetadata)

TimeOpenings == {"Hello", "Good Morning", "a time greeting"}
TimeEndings  == {"", " in brief casual Japanese", " from paris or London, 24h",
                 " informal without time", " auf Deutsch, not French"}
TimeTexts    == {a \o b : a \in TimeOpenings, b \in TimeEndings} \cup {""}

\* What a client may send under the time-greeting URI.
TimeEntries ==
  {EmptyDict, [style |-> "formal"], [language |-> "zz"],
   [timezone |-> "Asia/Tokyo", format |-> "24h", includeTime |-> FALSE],
   [id |-> "meta-id", style |-> "pirate", language |-> "es"]}

TimeMetadata ==
  {NoneValue, EmptyDict, [trace |-> "t1"]}
    \cup {[extensions |-> [u \in {TimeGreetingURI} |-> e]] : e \in TimeEntries}

TimeActiveLists == {{}, {TimeGreetingURI}, {OtherURI}}

TimeContexts == Contexts(TimeActiveLists, TimeTexts, TimeMetadata)

\* The hours and minutes the host's clock may show, and the host's environment.
Hours   == 0..23
Minutes == {5}
Envs    == [now : [hour : Hours, minute : Minutes], support : TzSupports]

\* The hours the clock shows in the executors' specification.
ExecutorHours == {6, 12, 23}
ExecutorEnvs  == {e \in Envs : e.now.hour \in ExecutorHours /\ e.now.minute = 5}

-----------------------------------------------------------------------------
(* execute() of the two executors, each built as its __main__ builds it    *)
(* (every extension given to the executor).                                *)

\* A mutation of execute: the greeting-style branch is tried first and the
\* random method only when neither header and metadata nor a keyword ask for a style.
ExtExecuteStyleFirst(ctx, g, uuid) ==
  LET message_text_lower == Lower(MessageText(ctx))
      styled == \/ /\ is_extension_active_from_headers(ctx)
                   /\ DOMAIN extract_extension_parameters_from_metadata(ctx) # {}
                \/ ContainsAny(message_text_lower, greeting_keywords)
  IN  IF ~styled /\ is_random_method_active(ctx, message_text_lower)
      THEN LET p == extract_random_method_parameters(ctx, message_text_lower)
               h == handle_random_method(p, g, uuid)
           IN  [active |-> TRUE, params |-> p, response |-> h.response,
                result |-> RandomResult(h.response), rng |-> h.rng]
      ELSE [active |-> FALSE, params |-> NoParams, response |-> NoResponse,
            result |-> GreetingStyleBranch(ctx, message_text_lower), rng |-> g]

\* HelloWorldAgentExecutor.execute of helloworld_Ext on context ctx with the
\* generator in state g: the activation result, the params, the handler's
\* response, the enqueued text and the generator's state afterwards.
ExtExecute(ctx, g, uuid) ==
  LET message_text_lower == Lower(MessageText(ctx))
  IN  IF is_random_method_active(ctx, message_text_lower)
      THEN LET p == extract_random_method_parameters(ctx, message_text_lower)
               h == handle_random_method(p, g, uuid)
           IN  [active |-> TRUE, params |-> p, response |-> h.response,
                result |-> RandomResult(h.response), rng |-> h.rng]
      ELSE [active |-> FALSE, params |-> NoParams, response |-> NoResponse,
            result |-> GreetingStyleBranch(ctx, message_text_lower), rng |-> g]

\* HelloWorldAgentExecutor.execute of helloworld_method_ext on context ctx, the
\* host's clock and time-zone support being env.
MethodExtExecute(ctx, env, uuid) ==
  LET message_text_lower == Lower(MessageText(ctx))
  IN  IF is_time_greeting_active(ctx, message_text_lower)
      THEN LET p == extract_time_greeting_parameters(ctx, message_text_lower)
               r == handle_time_greeting_method(p, env, uuid)
           IN  [active |-> TRUE, params |-> p, response |-> r,
                result |-> IF IsError(r) THEN "Error: " \o r.error.message
                           ELSE r.parts[1].text]
      ELSE [active |-> FALSE, params |-> NoParams, response |-> NoResponse,
            result |-> HelloWorld]

-----------------------------------------------------------------------------
(* Spec: each sample agent serving requests, one execute() call at a time. *)

Agents == {"helloworld_Ext", "helloworld_method_ext"}

Init ==
  /\ agent \in Agents
  /\ rng \in (IF agent = "helloworld_Ext" THEN 0..(RngStates - 1) ELSE {0})
  /\ request = NoRequest
  /\ active = FALSE
  /\ params = NoParams
  /\ response = NoResponse
  /\ event_queue = <<>>
  /\ call = NoCall
  /\ reference = NoRef
  /\ threads = <<>>
  /\ main = NoMain

\* helloworld_Ext: HelloWorldAgentExecutor.execute(context, event_queue)
ExecuteExt ==
  /\ agent = "helloworld_Ext"
  /\ request = NoRequest
  /\ \E ctx \in ExtContexts, uuid \in Uuids :
       LET x == ExtExecute(ctx, rng, uuid)
       IN  /\ request' = ctx
           /\ active' = x.active
           /\ params' = x.params
           /\ response' = x.response
           /\ rng' = x.rng
           /\ event_queue' = Append(event_queue, AgentTextMessage(x.result))
  /\ UNCHANGED <<agent, main, call, reference, threads>>

\* helloworld_method_ext: HelloWorldAgentExecutor.execute(context, event_queue)
ExecuteMethodExt ==
  /\ agent = "helloworld_method_ext"
  /\ request = NoRequest
  /\ \E ctx \in TimeContexts, env \in ExecutorEnvs, uuid \in Uuids :
       LET x == MethodExtExecute(ctx, env, uuid)
       IN  /\ request' = ctx
           /\ active' = x.active
           /\ params' = x.params
           /\ response' = x.response
           /\ event_queue' = Append(event_queue, AgentTextMessage(x.result))
  /\ UNCHANGED <<agent, main, rng, call, reference, threads>>

\* The request handler drains the request's event queue, answers the client and
\* drops the context; the process-wide generator keeps its state.
Deliver ==
  /\ request # NoRequest
  /\ request' = NoRequest
  /\ active' = FALSE
  /\ params' = NoParams
  /\ response' = NoResponse
  /\ event_queue' = <<>>
  /\ UNCHANGED <<agent, main, rng, call, reference, threads>>

Next == ExecuteExt \/ ExecuteMethodExt \/ Deliver

Spec == Init /\ [][Next]_vars

-----------------------------------------------------------------------------
(* SpecHandlers: the two method handlers called directly, as a JSON-RPC     *)
(* client of message/random and greeting/time-based reaches them, one call *)
(* at a time, with any params object.                                      *)

RandomParamSets ==
  {a @@ b @@ c @@ d :
     a \in Optional("id", {"x"}),
     b \in Optional("seed", {JInt(1), JInt(2), JList(<<1>>)}),
     c \in Optional("excludeStyles",
                    {JList(<<"formal", "enthusiastic", "casual">>), JList(AllStylesList), JNull}),
     d \in Optional("excludeLanguages", {JList(<<"en", "xx">>), JList(AllLanguagesList)})}

TimeParamSets ==
  {a @@ b @@ c @@ d @@ e @@ f :
     a \in Optional("id", {"x"}),
     b \in Optional("language", {"es", "zz"}),
     c \in Optional("style", {"formal", "pirate"}),
     d \in Optional("format", {"24h", "bogus"}),
     e \in Optional("timezone", {"Asia/Tokyo", "Mars/Olympus", "local (fallback)"}),
     f \in Optional("includeTime", {FALSE})}

\* How many later calls a kept reference call counts before the count saturates.
MaxLater == 2

\* The reference after one more call: a call with an id and a seed may be kept
\* as the reference while there is none; a kept reference counts the calls
\* made after it.
NextReference(keep, c) ==
  IF reference = NoRef
  THEN IF keep /\ {"id", "seed"} \subseteq DOMAIN c.params
       THEN [params |-> c.params, response |-> c.response, later |-> 0]
       ELSE NoRef
  ELSE [reference EXCEPT !.later = IF @ < MaxLater THEN @ + 1 ELSE @]

\* A client calls message/random: RandomMethodExtension.handle_random_method(params)
CallRandom ==
  /\ agent = "helloworld_Ext"
  /\ call = NoCall
  /\ \E p \in RandomParamSets, uuid \in Uuids, keep \in BOOLEAN :
       LET h == handle_random_method(p, rng, uuid)
           c == [method |-> "message/random", params |-> p, response |-> h.response]
       IN  /\ call' = c
           /\ rng' = h.rng
           /\ reference' = NextReference(keep, c)
  /\ UNCHANGED <<agent, main, request, active, params, response, event_queue, threads>>

\* A client calls greeting/time-based:
\* TimeGreetingExtension.handle_time_greeting_method(params)
CallTime ==
  /\ agent = "helloworld_method_ext"
  /\ call = NoCall
  /\ \E p \in TimeParamSets, env \in Envs, uuid \in Uuids :
       call' = [method |-> "greeting/time-based", params |-> p, env |-> env,
                response |-> handle_time_greeting_method(p, env, uuid)]
  /\ UNCHANGED <<agent, main, rng, request, active, params, response, event_queue,
                 reference, threads>>

\* The response has been sent; the next call may come.
Return ==
  /\ call # NoCall
  /\ call' = NoCall
  /\ UNCHANGED <<agent, main, rng, request, active, params, response, event_queue,
                 reference, threads>>

NextHandlers == CallRandom \/ CallTime \/ Return

SpecHandlers == Init /\ [][NextHandlers]_vars

-----------------------------------------------------------------------------
(* SpecGreeting: GreetingStyleExtension.get_greeting called directly.       *)

StyleArgs    == Style_supported_styles \cup {None, "", "pirate", "brief"}
LanguageArgs == Style_supported_languages \cup {None, "", "zz"}

\* greeting_extension.get_greeting(style=..., language=...)
CallGetGreeting ==
  /\ agent = "helloworld_Ext"
  /\ call = NoCall
  /\ \E style \in StyleArgs, language \in LanguageArgs, keep \in BOOLEAN :
       LET c == [method |-> "get_greeting", style |-> style, language |-> language,
                 result |-> get_greeting(style, language)]
       IN  /\ call' = c
           /\ reference' = IF reference = NoRef
                           THEN IF keep THEN c @@ [later |-> 0] ELSE NoRef
                           ELSE [reference EXCEPT
                                   !.later = IF @ < MaxLater THEN @ + 1 ELSE @]
  /\ UNCHANGED <<agent, main, rng, request, active, params, response, event_queue, threads>>

NextGreeting == CallGetGreeting \/ Return

InitGreeting == Init /\ agent = "helloworld_Ext"

SpecGreeting == InitGreeting /\ [][NextGreeting]_vars

-----------------------------------------------------------------------------
(* SpecConc: handle_random_method entered by several threads of one        *)
(* process.  The handler holds no lock, and random.seed and random.choice  *)
(* act on the generator of the random module, which the threads share: a   *)
(* thread may be preempted between its seeding and each of its two draws.  *)

NumThreads == 2
Threads    == 1..NumThreads

IdleThread == [pc |-> "idle", params |-> NoParams, selected_style |-> None,
               response |-> NoResponse]

ConcParamSets ==
  {[id |-> "x", seed |-> JInt(1)], [id |-> "x", seed |-> JInt(2)], [id |-> "x"],
   [id |-> "x", seed |-> JInt(1), excludeStyles |-> JList(<<"formal">>)],
   [id |-> "x", seed |-> JInt(2), excludeLanguages |-> JList(AllLanguagesList)],
   [seed |-> JInt(1)], [id |-> "x", seed |-> JList(<<1>>)]}

Done(t, r) == [threads EXCEPT ![t].pc = "done", ![t].response = r]

\* Lines 57-69: the id check, the reading of the params and random.seed(seed).
ThreadSeed(t) ==
  /\ threads[t].pc = "idle"
  /\ \E p \in ConcParamSets :
       LET seed == Get(p, "seed", JNull)
           th   == [threads EXCEPT ![t].params = p]
       IN  IF "id" \notin DOMAIN p
           THEN /\ threads' = [th EXCEPT ![t].pc = "done",
                                 ![t].response =
                                   ErrorResponse(-32602, "Invalid params: " \o MissingId)]
                /\ rng' = rng
           ELSE IF ~SeedUsable(seed)
           THEN /\ threads' = [th EXCEPT ![t].pc = "done",
                                 ![t].response =
                                   ErrorResponse(-32002,
                                     "Random generation failed: unsupported seed type")]
                /\ rng' = rng
           ELSE /\ threads' = [th EXCEPT ![t].pc = "seeded"]
                /\ rng' = IF seed # JNull THEN SeedState(seed[2]) ELSE rng
  /\ UNCHANGED <<agent, main, request, active, params, response, event_queue, call, reference>>

\* Lines 71-80: the filtering of the options, the exhaustion check and the
\* first draw, random.choice(available_styles).
ThreadChooseStyle(t) ==
  /\ threads[t].pc = "seeded"
  /\ LET p == threads[t].params
         available_styles ==
           Without(Random_all_styles, Get(p, "excludeStyles", JList(<<>>))[2])
         available_languages ==
           Without(Random_all_languages, Get(p, "excludeLanguages", JList(<<>>))[2])
     IN  IF Exhausted(available_styles, available_languages)
         THEN /\ threads' = Done(t, ErrorResponse(-32001,
                                      "No valid style/language combinations available"))
              /\ rng' = rng
         ELSE LET s == Choice(rng, available_styles)
              IN  /\ threads' = [threads EXCEPT ![t].pc = "style_chosen",
                                                ![t].selected_style = s.value]
                  /\ rng' = s.rng
  /\ UNCHANGED <<agent, main, request, active, params, response, event_queue, call, reference>>

\* Lines 81-111: the second draw, random.choice(available_languages), and the
\* building of the message.
ThreadChooseLanguage(t) ==
  /\ threads[t].pc = "style_chosen"
  /\ \E uuid \in Uuids :
       LET p == threads[t].params
           available_languages ==
             Without(Random_all_languages, Get(p, "excludeLanguages", JList(<<>>))[2])
           l == Choice(rng, available_languages)
       IN  /\ threads' = Done(t, RandomMessage(uuid, threads[t].selected_style, l.value,
                                               Get(p, "seed", JNull)))
           /\ rng' = l.rng
  /\ UNCHANGED <<agent, main, request, active, params, response, event_queue, call, reference>>

\* The thread's call has returned.
ThreadReturn(t) ==
  /\ threads[t].pc = "done"
  /\ threads' = [threads EXCEPT ![t] = IdleThread]
  /\ UNCHANGED <<agent, main, rng, request, active, params, response, event_queue, call,
                 reference>>

NextConc ==
  \E t \in Threads :
    ThreadSeed(t) \/ ThreadChooseStyle(t) \/ ThreadChooseLanguage(t) \/ ThreadReturn(t)

InitConc ==
  /\ agent = "helloworld_Ext"
  /\ rng \in 0..(RngStates - 1)
  /\ request = NoRequest
  /\ active = FALSE
  /\ params = NoParams
  /\ response = NoResponse
  /\ event_queue = <<>>
  /\ call = NoCall
  /\ reference = NoRef
  /\ threads = [t \in Threads |-> IdleThread]
  /\ main = NoMain

SpecConc == InitConc /\ [][NextConc]_vars

-----------------------------------------------------------------------------
(* SpecAnyMetadata: the executors of Spec, served also with messages whose *)
(* metadata holds a string under 'extensions'.  Message.metadata is a      *)
(* mapping of names to any JSON value, so the framework hands such a       *)
(* message to execute().                                                   *)

\* A JSON string where the code expects a mapping.
StrValue == [isStr |-> TRUE]

MalformedMetadata == {[extensions |-> StrValue]}

MalformedContexts ==
  {c \in Contexts(ExtActiveLists \cup TimeActiveLists,
                  {"Hello", "Surprise me", "Good Morning"}, MalformedMetadata) :
     c.has_message}

\* extensions_metadata.get(uri, {}) raises AttributeError on a string.
GetRaises(ctx) ==
  /\ ctx.has_message
  /\ Truthy(ctx.metadata)
  /\ Get(ctx.metadata, "extensions", EmptyDict) = StrValue

\* execute(context, event_queue) of either executor on such a message.
\* helloworld_Ext reads the metadata on both branches
\* (_extract_random_method_parameters, _extract_extension_parameters_from_metadata),
\* helloworld_method_ext only once the time greeting is active
\* (_extract_time_greeting_parameters); the AttributeError leaves execute()
\* before anything is enqueued.
ExecuteMalformed ==
  /\ request = NoRequest
  /\ \E ctx \in MalformedContexts :
       LET message_text_lower == Lower(MessageText(ctx))
           is_active == IF agent = "helloworld_Ext"
                        THEN is_random_method_active(ctx, message_text_lower)
                        ELSE is_time_greeting_active(ctx, message_text_lower)
           raised    == GetRaises(ctx) /\ (agent = "helloworld_Ext" \/ is_active)
       IN  /\ request' = ctx
           /\ active' = is_active
           /\ params' = NoParams
           /\ response' = NoResponse
           /\ event_queue' = IF raised THEN event_queue
                             ELSE Append(event_queue, AgentTextMessage(HelloWorld))
  /\ UNCHANGED <<agent, main, rng, call, reference, threads>>

NextAnyMetadata == ExecuteExt \/ ExecuteMethodExt \/ ExecuteMalformed \/ Deliver

SpecAnyMetadata == Init /\ [][NextAnyMetadata]_vars

-----------------------------------------------------------------------------
(* SpecMain: __main__ of the two agents, from the building of the agent    *)
(* cards to the serving of method calls.  An AgentCard holds a reference   *)
(* to its AgentCapabilities object; model_copy() is pydantic's shallow     *)
(* copy, which copies the reference and not the object.  main.capabilities *)
(* is the heap of these objects, a card's capabilities field an index in   *)
(* it.                                                                     *)

\* GreetingStyleExtension.get_extension_metadata()
Style_extension_metadata ==
  [name |-> "Greeting Style Extension",
   description |-> "Customize greeting styles and languages",
   version |-> "1.0.0",
   supported_styles |-> <<"casual", "formal", "enthusiastic", "multilingual">>,
   supported_languages |-> <<"en", "es", "fr", "de", "ja">>,
   default_style |-> Style_default_style,
   default_language |-> Style_default_language,
   examples |-> <<[style |-> "casual", language |-> "en"],
                  [style |-> "formal", language |-> "fr"],
                  [style |-> "enthusiastic", language |-> "ja"],
                  [style |-> "multilingual", language |-> "en"]>>]

\* RandomMethodExtension.get_extension_metadata()
Random_extension_metadata ==
  [uri |-> RandomMethodURI,
   name |-> "Random Greeting Method Extension",
   version |-> "1.0.0",
   type |-> "method",
   methods |-> <<"message/random">>,
   description |-> "Adds message/random method for generating random greetings"]

\* TimeGreetingExtension._supported_timezones, a set, as the source lists it.
Time_supported_timezones ==
  <<"UTC", "local", "GMT", "America/New_York", "America/Los_Angeles",
    "America/Chicago", "America/Denver", "Europe/London", "Europe/Paris",
    "Europe/Berlin", "Europe/Rome", "Asia/Tokyo", "Asia/Shanghai", "Asia/Mumbai",
    "Asia/Dubai", "Australia/Sydney", "Pacific/Auckland">>

Reverse(seq) == [i \in 1..Len(seq) |-> seq[Len(seq) + 1 - i]]

\* list(self._supported_timezones): the order in which the process iterates the
\* set.  It depends on the string hashing of the process and does not change
\* while the process runs.
TimezoneOrders == {Time_supported_timezones, Reverse(Time_supported_timezones)}

\* TimeGreetingExtension.get_extension_metadata()
Time_extension_metadata(tz_order) ==
  [uri |-> TimeGreetingURI,
   name |-> "Time-Based Greeting Extension",
   version |-> "1.0.0",
   type |-> "method",
   methods |-> <<"greeting/time-based">>,
   description |->
     "Provides contextually appropriate greetings based on current time of day",
   supportedTimezones |-> tz_order,
   supportedLanguages |-> <<"en", "es", "fr", "de", "ja">>,
   supportedStyles |-> <<"casual", "formal", "brief">>,
   timePeriods |-> <<"dawn", "morning", "noon", "afternoon", "evening", "night",
                     "late_night">>]

\* d[key] = value on a dict
SetItem(d, key, value) == [k \in {key} |-> value] @@ d

\* `if ... capabilities.extensions is None: capabilities.extensions = {}`
\* followed by `capabilities.extensions[uri] = metadata`, on the capabilities
\* object of card.
Register(card, heap, uri, metadata) ==
  LET extensions == IF heap[card.capabilities].extensions = NoneValue
                    THEN EmptyDict
                    ELSE heap[card.capabilities].extensions
  IN  [heap EXCEPT ![card.capabilities].extensions = SetItem(extensions, uri, metadata)]

\* A mutation of extend_agent_card: the extensions dict is created anew on every call.
extend_agent_card_reset(agent_card, heap) ==
  [card |-> agent_card,
   capabilities |->
     [heap EXCEPT ![agent_card.capabilities].extensions =
        SetItem(EmptyDict, GreetingStyleURI, Style_extension_metadata)]]

\* GreetingStyleExtension.extend_agent_card(agent_card): the card returned, a
\* shallow copy of agent_card, and the heap afterwards.
extend_agent_card(agent_card, heap) ==
  LET extended_card == agent_card
  IN  [card |-> extended_card,
       capabilities |-> Register(extended_card, heap, GreetingStyleURI,
                                 Style_extension_metadata)]

\* The metadata of the method extension the agent registers in __main__.
MethodExtensionMetadata ==
  IF agent = "helloworld_Ext" THEN Random_extension_metadata
  ELSE Time_extension_metadata(main.tz_order)

\* public_agent_card = AgentCard(..., capabilities=AgentCapabilities(streaming=True))
MainBuildCard ==
  /\ main.pc = "build"
  /\ main' = [main EXCEPT
                !.capabilities = <<[extensions |-> NoneValue]>>,
                !.public_agent_card = [name |-> "Hello World Agent", capabilities |-> 1],
                !.pc = IF agent = "helloworld_Ext" THEN "extend_public"
                       ELSE "register_public"]
  /\ UNCHANGED <<agent, rng, request, active, params, response, event_queue, call,
                 reference, threads>>

\* helloworld_Ext: card = greeting_extension.extend_agent_card(card), for the
\* public card and then for the extended card.
MainExtendCard ==
  /\ main.pc \in {"extend_public", "extend_extended"}
  /\ LET public == main.pc = "extend_public"
         x == extend_agent_card(IF public THEN main.public_agent_card
                                ELSE main.specific_extended_agent_card,
                                main.capabilities)
     IN  main' = [main EXCEPT
                    !.capabilities = x.capabilities,
                    !.public_agent_card = IF public THEN x.card ELSE @,
                    !.specific_extended_agent_card = IF public THEN @ ELSE x.card,
                    !.pc = IF public THEN "register_public" ELSE "register_extended"]
  /\ UNCHANGED <<agent, rng, request, active, params, response, event_queue, call,
                 reference, threads>>

\* card.capabilities.extensions[metadata["uri"]] = metadata for the method
\* extension, on the public card and then on the extended card.
MainRegisterMethod ==
  /\ main.pc \in {"register_public", "register_extended"}
  /\ LET public == main.pc = "register_public"
         card   == IF public THEN main.public_agent_card
                   ELSE main.specific_extended_agent_card
     IN  main' = [main EXCEPT
                    !.capabilities = Register(card, main.capabilities,
                                              MethodExtensionMetadata.uri,
                                              MethodExtensionMetadata),
                    !.pc = IF public THEN "copy" ELSE "serve"]
  /\ UNCHANGED <<agent, rng, request, active, params, response, event_queue, call,
                 reference, threads>>

\* specific_extended_agent_card = public_agent_card.model_copy(update={...})
MainModelCopy ==
  /\ main.pc = "copy"
  /\ main' = [main EXCEPT
                !.specific_extended_agent_card =
                  [main.public_agent_card EXCEPT
                     !.name = "Hello World Agent - Extended Edition"],
                !.pc = IF agent = "helloworld_Ext" THEN "extend_extended"
                       ELSE "register_extended"]
  /\ UNCHANGED <<agent, rng, request, active, params, response, event_queue, call,
                 reference, threads>>

\* The request handler and the application are built and uvicorn.run() serves.
MainServe ==
  /\ main.pc = "serve"
  /\ main' = [main EXCEPT !.pc = "serving"]
  /\ UNCHANGED <<agent, rng, request, active, params, response, event_queue, call,
                 reference, threads>>

\* The served process answers the calls of its extension method.
ServeCalls == main.pc = "serving" /\ NextHandlers

NextMain ==
  \/ MainBuildCard \/ MainExtendCard \/ MainRegisterMethod \/ MainModelCopy
  \/ MainServe \/ ServeCalls

InitMain ==
  /\ agent \in Agents
  /\ rng \in (IF agent = "helloworld_Ext" THEN 0..(RngStates - 1) ELSE {0})
  /\ request = NoRequest
  /\ active = FALSE
  /\ params = NoParams
  /\ response = NoResponse
  /\ event_queue = <<>>
  /\ call = NoCall
  /\ reference = NoRef
  /\ threads = <<>>
  /\ \E order \in (IF agent = "helloworld_Ext" THEN {Time_supported_timezones}
                   ELSE TimezoneOrders) :
       main = [pc |-> "build", tz_order |-> order, capabilities |-> <<>>,
               public_agent_card |-> NoCard,
               specific_extended_agent_card |-> NoCard]

SpecMain == InitMain /\ [][NextMain]_vars

-----------------------------------------------------------------------------
(* SpecGrpc: helloworld_Ext/grpc_agent_executor.py.  execute() runs from   *)
(* one await to the next; request is the context it was given, call its    *)
(* position, event_queue the events it has enqueued.                       *)

\* A mutation of stream(): the final chunk is yielded before ' World'.
stream_final_early ==
  <<[finished |-> FALSE, text |-> "Hello"],
    [finished |-> TRUE,  text |-> " from gRPC!"],
    [finished |-> FALSE, text |-> " World"]>>

\* HelloWorldAgent.stream(query, context_id): the chunks it yields.
stream ==
  <<[finished |-> FALSE, text |-> "Hello"],
    [finished |-> FALSE, text |-> " World"],
    [finished |-> TRUE,  text |-> " from gRPC!"]>>

\* The events execute() enqueues, itself or through the TaskUpdater.
TaskEvent(context_id)  == [event |-> "task", context_id |-> context_id]
WorkingEvent(text)     == [event |-> "status", state |-> "working", text |-> text]
ArtifactEvent(text)    == [event |-> "artifact", name |-> "response", text |-> text]
CompletedEvent         == [event |-> "status", state |-> "completed", final |-> TRUE]

\* The contexts: with or without a current task, the user's input, the context id.
GrpcContexts ==
  [current_task : BOOLEAN,
   query : {"", "hi", "Hello", "surprise me", "good morning"},
   context_id : {"ctx-1", "ctx-2"}]

InitGrpc ==
  /\ agent = "helloworld_Ext"
  /\ rng = 0
  /\ request = NoRequest
  /\ active = FALSE
  /\ params = NoParams
  /\ response = NoResponse
  /\ event_queue = <<>>
  /\ call = NoCall
  /\ reference = NoRef
  /\ threads = <<>>
  /\ main = NoMain

\* HelloWorldGrpcAgentExecutor.execute(context, event_queue) is entered.
GrpcExecute ==
  /\ request = NoRequest
  /\ \E ctx \in GrpcContexts : request' = ctx
  /\ call' = [method |-> "execute", pc |-> "task", next |-> 1]
  /\ UNCHANGED <<agent, main, rng, active, params, response, event_queue, reference,
                 threads>>

\* if not task: task = new_task(context.message); enqueue_event(task)
GrpcNewTask ==
  /\ call # NoCall /\ call.pc = "task"
  /\ event_queue' = IF request.current_task THEN event_queue
                    ELSE Append(event_queue, TaskEvent(request.context_id))
  /\ call' = [call EXCEPT !.pc = "stream"]
  /\ UNCHANGED <<agent, main, rng, request, active, params, response, reference,
                 threads>>

\* A chunk that is not the final one: updater.update_status(working, text); continue
GrpcUpdateStatus ==
  /\ call # NoCall /\ call.pc = "stream"
  /\ call.next <= Len(stream) /\ ~stream[call.next].finished
  /\ event_queue' = Append(event_queue, WorkingEvent(stream[call.next].text))
  /\ call' = [call EXCEPT !.next = @ + 1]
  /\ UNCHANGED <<agent, main, rng, request, active, params, response, reference,
                 threads>>

\* The final chunk: updater.add_artifact([text], name='response')
GrpcAddArtifact ==
  /\ call # NoCall /\ call.pc = "stream"
  /\ call.next <= Len(stream) /\ stream[call.next].finished
  /\ event_queue' = Append(event_queue, ArtifactEvent(stream[call.next].text))
  /\ call' = [call EXCEPT !.pc = "complete"]
  /\ UNCHANGED <<agent, main, rng, request, active, params, response, reference,
                 threads>>

\* updater.complete(); break
GrpcComplete ==
  /\ call # NoCall /\ call.pc = "complete"
  /\ event_queue' = Append(event_queue, CompletedEvent)
  /\ call' = [call EXCEPT !.pc = "done"]
  /\ UNCHANGED <<agent, main, rng, request, active, params, response, reference,
                 threads>>

\* execute() has returned (also when the stream ends with no final chunk); the
\* request handler drains the queue and drops the context.
GrpcReturn ==
  /\ call # NoCall
  /\ call.pc = "done" \/ (call.pc = "stream" /\ call.next > Len(stream))
  /\ request' = NoRequest
  /\ call' = NoCall
  /\ event_queue' = <<>>
  /\ UNCHANGED <<agent, main, rng, active, params, response, reference, threads>>

NextGrpc ==
  \/ GrpcExecute \/ GrpcNewTask \/ GrpcUpdateStatus \/ GrpcAddArtifact
  \/ GrpcComplete \/ GrpcReturn

SpecGrpc == InitGrpc /\ [][NextGrpc]_vars

-----------------------------------------------------------------------------
(* Properties of the activation checks and of the parameter extraction     *)
(* (Spec).                                                                 *)

\* The URI and the keywords of the method extension the agent's executor routes to.
ExtensionURI == IF agent = "helloworld_Ext" THEN RandomMethodURI ELSE TimeGreetingURI
ExtensionKeywords == IF agent = "helloworld_Ext" THEN random_keywords ELSE time_keywords

\* A request is being served.
Serving == request # NoRequest

\* The activation header lists the extension's URI.
Listed == request.has_active_extensions /\ ExtensionURI \in request.active_extensions

\* The lower-cased message text holds one of the extension's keywords.
KeywordInText == ContainsAny(Lower(MessageText(request)), ExtensionKeywords)

\* The text the executor enqueued for the request.
Answer == event_queue[1].text

\* The request's metadata holds an entry for the extension's URI under 'extensions'.
HasEntry ==
  /\ request.has_message
  /\ request.metadata # NoneValue
  /\ "extensions" \in DOMAIN request.metadata
  /\ ExtensionURI \in DOMAIN request.metadata.extensions

Entry == request.metadata.extensions[ExtensionURI]

\* C1: when the extension's URI is in the request's active-extension list, the
\* activation check (_is_random_method_active, _is_time_greeting_active) returns
\* true, whatever the message text is.
ExplicitActivation == Serving /\ Listed => active

ExplicitActivationWitness ==
  /\ Serving /\ Listed /\ active
  /\ request.has_message /\ request.text = "Hello"
  /\ ~KeywordInText

\* C2 as stated: with an empty active-extension list the activation check returns
\* true iff the lower-cased text holds a keyword, and a request that is not
\* activated is answered with the plain 'Hello World'.
ImplicitActivationHelloWorld ==
  Serving /\ request.active_extensions = {} =>
    /\ active <=> KeywordInText
    /\ ~active => Answer = HelloWorld

\* C2, amended: with an empty active-extension list the activation check returns
\* true iff the lower-cased text holds a keyword; a request that is not activated
\* does not reach the extension's handler; helloworld_method_ext then answers
\* 'Hello World', and helloworld_Ext goes on to its greeting-style branch, which
\* answers 'Hello World' only when the text holds no greeting-style keyword.
ImplicitActivation ==
  Serving /\ request.active_extensions = {} =>
    /\ active <=> KeywordInText
    /\ ~active =>
         /\ response = NoResponse /\ params = NoParams
         /\ agent = "helloworld_method_ext" => Answer = HelloWorld
         /\ agent = "helloworld_Ext" =>
              (Answer = HelloWorld
                 <=> ~ContainsAny(Lower(MessageText(request)), greeting_keywords))

ImplicitActivationWitness ==
  /\ Serving /\ request.active_extensions = {}
  /\ agent = "helloworld_Ext"
  /\ request.has_message /\ request.text = "Hello in formal French"
  /\ ~active /\ response = NoResponse
  /\ Answer = Style_greetings.formal.fr

\* C3 as stated: whenever the metadata carries an entry for the extension's URI
\* under 'extensions', the resolved params are exactly the base {id} updated with
\* that entry, nothing being taken from the text.
EntryWins ==
  Serving /\ active /\ HasEntry =>
    params = Update([id |-> request.task_id], Entry)

\* C3, amended: whenever the metadata carries an entry for the extension's URI
\* under 'extensions' and the entry is not empty, the resolved params are exactly
\* the base {id} updated with that entry, nothing being taken from the text.
NonEmptyEntryWins ==
  Serving /\ active /\ HasEntry /\ Entry # EmptyDict =>
    params = Update([id |-> request.task_id], Entry)

NonEmptyEntryWinsWitness ==
  /\ Serving /\ active /\ HasEntry
  /\ agent = "helloworld_method_ext"
  /\ Entry = [style |-> "formal"]
  /\ request.text = "Good Morning in brief casual Japanese"
  /\ params = [id |-> request.task_id, style |-> "formal"]

\* C4: when the metadata sets only some fields under the extension's URI, the
\* fields it does not set are not filled from the text: the params hold the id
\* and the entry's fields only, so that a time greeting without a timezone in
\* the entry is computed for "local" whatever city the text names.
AllOrNothing ==
  Serving /\ active /\ HasEntry /\ Entry # EmptyDict =>
    /\ DOMAIN params = {"id"} \cup DOMAIN Entry
    /\ \A f \in DOMAIN Entry : params[f] = Entry[f]
    /\ (agent = "helloworld_method_ext" /\ "timezone" \notin DOMAIN Entry
          /\ ~IsError(response))
         => response.metadata.timeContext.timezone = "local"

AllOrNothingWitness ==
  /\ Serving /\ active /\ HasEntry
  /\ agent = "helloworld_method_ext"
  /\ Entry = [style |-> "formal"]
  /\ request.text = "Good Morning from paris or London, 24h"
  /\ DOMAIN params = {"id", "style"}
  /\ ~IsError(response)
  /\ response.metadata.timeContext.timezone = "local"

-----------------------------------------------------------------------------
(* Properties of GreetingStyleExtension.get_greeting (SpecGreeting).       *)

GreetingCalled == call # NoCall /\ call.method = "get_greeting"

InCatalog(style, language) ==
  style \in Style_supported_styles /\ language \in Style_supported_languages

\* C5: for every style and language of the catalog, get_greeting returns the
\* catalog's text for that pair, a string that is not empty, and a later call
\* with the same arguments returns the same text.
CatalogLookup ==
  GreetingCalled /\ InCatalog(call.style, call.language) =>
    /\ call.result = Style_greetings[call.style][call.language]
    /\ call.result # ""
    /\ (reference # NoRef /\ reference.style = call.style
          /\ reference.language = call.language)
         => reference.result = call.result

CatalogLookupWitness ==
  /\ GreetingCalled
  /\ call.style = "formal" /\ call.language = "fr"
  /\ call.result = Style_greetings.formal.fr
  /\ reference # NoRef /\ reference.later = MaxLater
  /\ reference.style = "formal" /\ reference.language = "fr"

\* C6 as stated: for every pair that is not in the catalog, get_greeting returns
\* the greeting of the default pair (casual, en).
FallbackToDefaultPair ==
  GreetingCalled /\ ~InCatalog(call.style, call.language) =>
    call.result = Style_greetings[Style_default_style][Style_default_language]

\* C6, amended: for every pair that is not in the catalog, get_greeting replaces
\* each argument that is not supported by its own default and keeps the other:
\* an unsupported style with a supported language gives the casual greeting in
\* that language, a supported style with an unsupported language gives that
\* style's English greeting, and only two unsupported arguments give the
\* greeting of (casual, en).
FallbackPerArgument ==
  GreetingCalled /\ ~InCatalog(call.style, call.language) =>
    call.result =
      Style_greetings[IF call.style \in Style_supported_styles
                      THEN call.style ELSE Style_default_style]
                     [IF call.language \in Style_supported_languages
                      THEN call.language ELSE Style_default_language]

FallbackPerArgumentWitness ==
  /\ GreetingCalled
  /\ call.style = "pirate" /\ call.language = "es"
  /\ call.result = Style_greetings.casual.es
  /\ call.result # Style_greetings.casual.en

-----------------------------------------------------------------------------
(* Properties of the handlers called directly (SpecHandlers, SpecConc).    *)

RandomCalled == call # NoCall /\ call.method = "message/random"
TimeCalled   == call # NoCall /\ call.method = "greeting/time-based"

\* What a response of handle_random_method selected: the style, the language and
\* the greeting text of a message, the code of an error.
Selection(r) ==
  IF IsError(r)
  THEN [error |-> r.error.code]
  ELSE [style    |-> r.metadata.randomSelection.style,
        language |-> r.metadata.randomSelection.language,
        text     |-> r.parts[1].text]

\* The three params the selection of a seeded call may depend on.
Triple(p) == [seed              |-> Get(p, "seed", JNull),
              exclude_styles    |-> Get(p, "excludeStyles", JList(<<>>)),
              exclude_languages |-> Get(p, "excludeLanguages", JList(<<>>))]

\* C7: two calls of handle_random_method with the same seed, the same
\* excludeStyles and the same excludeLanguages return the same style, language
\* and text, whatever calls were made before and between them.
SeededDeterminism ==
  (/\ RandomCalled /\ reference # NoRef
   /\ {"id", "seed"} \subseteq DOMAIN call.params
   /\ Triple(call.params) = Triple(reference.params))
    => Selection(call.response) = Selection(reference.response)

SeededDeterminismWitness ==
  /\ RandomCalled /\ reference # NoRef
  /\ reference.later = MaxLater
  /\ call.params = [id |-> "x", seed |-> JInt(2)]
  /\ reference.params = call.params
  /\ ~IsError(call.response)
  /\ Selection(call.response) = Selection(reference.response)
  /\ call.response.metadata.randomSelection.seed = JInt(2)

\* What a call with params p selects when no other call runs during it.
Alone(p) == Selection(handle_random_method(p, 0, "0a1b2c3d").response)

\* C8: when calls of handle_random_method run concurrently, every call that
\* supplied a seed returns the selection its own seed, excludeStyles and
\* excludeLanguages determine, whatever the other calls seed and draw.
SeededDrawsIsolated ==
  \A t \in Threads :
    (threads[t].pc = "done" /\ "seed" \in DOMAIN threads[t].params)
      => Selection(threads[t].response) = Alone(threads[t].params)

\* The lists an exclusion param may hold.
WellFormed(p) ==
  /\ Iterable(Get(p, "excludeStyles", JList(<<>>)))
  /\ Iterable(Get(p, "excludeLanguages", JList(<<>>)))

Covers(p, key, all) ==
  \A i \in 1..Len(all) : InList(all[i], Get(p, key, JList(<<>>))[2])

NothingLeft(p) ==
  \/ Covers(p, "excludeStyles", Random_all_styles)
  \/ Covers(p, "excludeLanguages", Random_all_languages)

\* C9 as stated: called with an id and well-formed exclusion lists,
\* handle_random_method returns the error -32001 exactly when excludeStyles
\* covers the four styles or excludeLanguages covers the five languages, and a
\* greeting message in every other case.
ExhaustionAnySeed ==
  (RandomCalled /\ "id" \in DOMAIN call.params /\ WellFormed(call.params)) =>
    IF NothingLeft(call.params)
    THEN IsError(call.response) /\ call.response.error.code = -32001
    ELSE ~IsError(call.response)

\* C9, amended: called with an id, well-formed exclusion lists and no seed or a
\* seed random.seed() accepts, handle_random_method returns the error -32001
\* exactly when excludeStyles covers the four styles or excludeLanguages covers
\* the five languages, and a greeting message in every other case.
Exhaustion ==
  (/\ RandomCalled /\ "id" \in DOMAIN call.params /\ WellFormed(call.params)
   /\ SeedUsable(Get(call.params, "seed", JNull))) =>
    IF NothingLeft(call.params)
    THEN IsError(call.response) /\ call.response.error.code = -32001
    ELSE /\ ~IsError(call.response)
         /\ call.response.kind = "message"
         /\ ~InList(call.response.metadata.randomSelection.style,
                    Get(call.params, "excludeStyles", JList(<<>>))[2])
         /\ ~InList(call.response.metadata.randomSelection.language,
                    Get(call.params, "excludeLanguages", JList(<<>>))[2])

ExhaustionWitness ==
  /\ RandomCalled
  /\ call.params = [id |-> "x", seed |-> JInt(1),
                    excludeStyles |-> JList(<<"formal", "enthusiastic", "casual">>),
                    excludeLanguages |-> JList(AllLanguagesList)]
  /\ IsError(call.response) /\ call.response.error.code = -32001

\* C10: handle_time_greeting_method and handle_random_method return the error
\* -32602 whenever params has no 'id', whatever else params holds, and
\* handle_random_method has not seeded the generator then.
MissingId32602 ==
  /\ [](((RandomCalled \/ TimeCalled) /\ "id" \notin DOMAIN call.params)
          => (IsError(call.response) /\ call.response.error.code = -32602))
  /\ [][(call = NoCall /\ call' # NoCall /\ "id" \notin DOMAIN call'.params)
          => rng' = rng]_vars

MissingId32602Witness ==
  /\ TimeCalled
  /\ call.params = [language |-> "zz", style |-> "pirate", format |-> "bogus"]
  /\ IsError(call.response) /\ call.response.error.code = -32602

-----------------------------------------------------------------------------
(* Properties of handle_time_greeting_method (SpecHandlers).               *)

\* A call of handle_time_greeting_method that passed the id check.
TimeCalledWithId == TimeCalled /\ "id" \in DOMAIN call.params

TimeContext == call.response.metadata.timeContext

StartsWith(text, prefix) ==
  Len(prefix) <= Len(text) /\ SubSeq(text, 1, Len(prefix)) = prefix

\* C11: called with an id and a language outside {en, es, fr, de, ja},
\* handle_time_greeting_method returns the error -32003, and returns it before
\* any time computation: whatever the timezone, style and format are, the
\* response is the same for every clock reading and every time-zone support of
\* the host, and a timezone the host rejects is not reported.
HardLanguageValidation ==
  (TimeCalledWithId /\ Get(call.params, "language", "en") \notin Time_languages) =>
    /\ call.response =
         ErrorResponse(-32003, "Unsupported language: " \o call.params.language)
    /\ \A e \in Envs :
         handle_time_greeting_method(call.params, e, "0a1b2c3d") = call.response

HardLanguageValidationWitness ==
  /\ TimeCalledWithId
  /\ call.params = [id |-> "x", language |-> "zz", style |-> "pirate",
                    format |-> "bogus", timezone |-> "Mars/Olympus"]
  /\ call.env.support = "zoneinfo"
  /\ IsError(call.response) /\ call.response.error.code = -32003

\* C12: a style outside {casual, formal, brief} is replaced by "casual" and a
\* format outside {12h, 24h} by "12h", and neither produces an error: the only
\* error such a call can end in is that of the timezone; the message's metadata
\* reports the clamped style, the text starts with the catalog's greeting for
\* the clamped style, and the time is written in the clamped format.
SilentClamping ==
  (/\ TimeCalledWithId
   /\ Get(call.params, "language", "en") \in Time_languages
   /\ \/ Get(call.params, "style", "casual") \notin Time_styles
      \/ Get(call.params, "format", "12h") \notin Time_formats) =>
    IF IsError(call.response)
    THEN call.response.error.code = -32001
    ELSE LET style  == IF Get(call.params, "style", "casual") \in Time_styles
                       THEN Get(call.params, "style", "casual") ELSE "casual"
             format == IF Get(call.params, "format", "12h") \in Time_formats
                       THEN Get(call.params, "format", "12h") ELSE "12h"
         IN  /\ TimeContext.style = style
             /\ StartsWith(call.response.parts[1].text,
                           Time_greetings[TimeContext.timePeriod]
                                         [TimeContext.language][style])
             /\ TimeContext.currentTime = format_time(call.env.now, format)

SilentClampingWitness ==
  /\ TimeCalledWithId
  /\ call.params = [id |-> "x", language |-> "es", style |-> "pirate",
                    format |-> "bogus", timezone |-> "Asia/Tokyo"]
  /\ call.env.support = "zoneinfo" /\ call.env.now.hour = 15
  /\ ~IsError(call.response)
  /\ TimeContext.style = "casual"
  /\ TimeContext.currentTime = "3:05 PM"
  /\ StartsWith(call.response.parts[1].text, Time_greetings.afternoon.es.casual)

\* The call names a timezone other than "local" that the zone conversion of the
\* host rejects.
TimezoneRejected ==
  /\ TimeCalledWithId
  /\ Get(call.params, "language", "en") \in Time_languages
  /\ "timezone" \in DOMAIN call.params
  /\ call.params.timezone # "local"
  /\ call.env.support # "none"
  /\ call.params.timezone \notin KnownZones

\* The greeting message for the host's local time under the given timezone label.
LocalGreeting(label) ==
  /\ ~IsError(call.response)
  /\ TimeContext.timezone = label
  /\ TimeContext.hour = call.env.now.hour

\* C13 as stated: when the timezone is not "local" and the zone conversion
\* rejects it, handle_time_greeting_method falls back to the host's local time
\* and returns a greeting message with the fallback label, not an error.
SoftTimezoneFailure == TimezoneRejected => LocalGreeting("local (fallback)")

\* C13, amended: when the timezone is not "local" and the zone conversion
\* rejects it, handle_time_greeting_method returns the error -32001 "Invalid
\* timezone", unless the name given is "local (fallback)" itself: only then it
\* returns the greeting for the host's local time with the fallback label.  On a
\* host without time-zone support no name is rejected: the greeting is that of
\* the local time, labelled "local (timezone support unavailable)".
TimezoneFailureReported ==
  /\ TimezoneRejected =>
       IF call.params.timezone = "local (fallback)"
       THEN LocalGreeting("local (fallback)")
       ELSE call.response =
              ErrorResponse(-32001, "Invalid timezone: " \o call.params.timezone)
  /\ (/\ TimeCalledWithId
      /\ Get(call.params, "language", "en") \in Time_languages
      /\ Get(call.params, "timezone", "local") # "local"
      /\ call.env.support = "none")
       => LocalGreeting("local (timezone support unavailable)")

TimezoneFailureReportedWitness ==
  /\ TimezoneRejected
  /\ call.params = [id |-> "x", timezone |-> "Mars/Olympus"]
  /\ call.env.support = "zoneinfo"
  /\ call.response = ErrorResponse(-32001, "Invalid timezone: Mars/Olympus")

\* The table of the periods of the day: first hour, last hour, period.
PeriodTable ==
  <<<<5, 6, "dawn">>, <<7, 11, "morning">>, <<12, 12, "noon">>,
    <<13, 17, "afternoon">>, <<18, 20, "evening">>, <<21, 22, "night">>,
    <<23, 23, "late_night">>, <<0, 4, "late_night">>>>

RowsOf(hour) ==
  {i \in 1..Len(PeriodTable) : PeriodTable[i][1] <= hour /\ hour <= PeriodTable[i][2]}

\* C14: get_time_period maps every hour 0..23 to exactly one period, that of
\* the one row of the table which holds the hour: 5-6 dawn, 7-11 morning, 12
\* noon, 13-17 afternoon, 18-20 evening, 21-22 night, 23 and 0-4 late_night.
DayPartition ==
  (TimeCalledWithId /\ ~IsError(call.response)) =>
    /\ TimeContext.hour = call.env.now.hour
    /\ Cardinality(RowsOf(TimeContext.hour)) = 1
    /\ \A i \in RowsOf(TimeContext.hour) : TimeContext.timePeriod = PeriodTable[i][3]

DayPartitionWitness ==
  /\ TimeCalledWithId /\ ~IsError(call.response)
  /\ call.env.now.hour = 7
  /\ TimeContext.hour = 7
  /\ TimeContext.timePeriod = "morning"

-----------------------------------------------------------------------------
(* Properties of both handlers (SpecHandlers).                             *)

\* An error object and nothing else.
ErrorShape(r) ==
  /\ DOMAIN r = {"error"}
  /\ DOMAIN r.error = {"code", "message"}
  /\ r.error.code \in {-32602, -32001, -32002, -32003}
  /\ r.error.message # ""

\* A message object with its text part and its metadata, and no error in it.
MessageShape(r, key, fields) ==
  /\ DOMAIN r = {"kind", "messageId", "parts", "role", "metadata"}
  /\ r.kind = "message" /\ r.role = "agent"
  /\ Len(r.parts) = 1
  /\ DOMAIN r.parts[1] = {"kind", "text"}
  /\ r.parts[1].kind = "text" /\ r.parts[1].text # ""
  /\ DOMAIN r.metadata = {key}
  /\ fields \subseteq DOMAIN r.metadata[key]

FullResponse ==
  IF IsError(call.response)
  THEN ErrorShape(call.response)
  ELSE IF RandomCalled
       THEN MessageShape(call.response, "randomSelection", {"style", "language"})
       ELSE MessageShape(call.response, "timeContext",
                         {"currentTime", "timezone", "timePeriod", "hour", "style",
                          "language"})

\* C15 as stated: for any params, the handlers return either an error object or
\* a full message object; a failure that is neither a missing id (-32602), an
\* exhaustion (-32001) nor an unsupported language (-32003) is reported as -32002.
OtherFailuresAre32002 ==
  (RandomCalled \/ TimeCalled) =>
    /\ FullResponse
    /\ IsError(call.response) =>
         call.response.error.code =
           IF "id" \notin DOMAIN call.params THEN -32602
           ELSE IF TimeCalled /\ Get(call.params, "language", "en") \notin Time_languages
           THEN -32003
           ELSE IF /\ RandomCalled /\ WellFormed(call.params)
                   /\ SeedUsable(Get(call.params, "seed", JNull))
                   /\ NothingLeft(call.params)
           THEN -32001
           ELSE -32002

\* C15, amended: for any params, the handlers return either an error object or
\* a full message object; a failure that is neither a missing id (-32602), an
\* exhaustion (-32001), an unsupported language (-32003) nor a timezone the
\* zone conversion rejects (-32001, the one failure left to
\* handle_time_greeting_method) is reported as -32002.
FullResponseOrError ==
  (RandomCalled \/ TimeCalled) =>
    /\ FullResponse
    /\ IsError(call.response) =>
         call.response.error.code =
           IF "id" \notin DOMAIN call.params THEN -32602
           ELSE IF TimeCalled /\ Get(call.params, "language", "en") \notin Time_languages
           THEN -32003
           ELSE IF TimeCalled THEN -32001
           ELSE IF /\ WellFormed(call.params)
                   /\ SeedUsable(Get(call.params, "seed", JNull))
                   /\ NothingLeft(call.params)
           THEN -32001
           ELSE -32002
    /\ (TimeCalled /\ IsError(call.response) /\ call.response.error.code = -32001)
         => TimezoneRejected

FullResponseOrErrorWitness ==
  /\ RandomCalled
  /\ call.params = [id |-> "x", seed |-> JInt(1), excludeStyles |-> JNull]
  /\ ErrorShape(call.response)
  /\ call.response.error.code = -32002

\* C16: every message of handle_time_greeting_method carries
\* metadata.timeContext with the six fields currentTime, timezone, timePeriod,
\* hour, style and language; timePeriod is get_time_period(hour), style and
\* language are the values after validation and clamping, and the text is the
\* catalog's greeting for (timePeriod, language, style), followed by the time
\* sentence when includeTime is set.
TimeContextConsistent ==
  (TimeCalledWithId /\ ~IsError(call.response)) =>
    LET entry == Time_greetings[TimeContext.timePeriod][TimeContext.language]
                               [TimeContext.style]
        text  == call.response.parts[1].text
    IN  /\ DOMAIN TimeContext =
             {"currentTime", "timezone", "timePeriod", "hour", "style", "language"}
        /\ TimeContext.hour \in Hours
        /\ TimeContext.timePeriod = get_time_period(TimeContext.hour)
        /\ TimeContext.language = Get(call.params, "language", "en")
        /\ TimeContext.language \in Time_languages
        /\ TimeContext.style \in Time_styles
        /\ Get(call.params, "style", "casual") \in Time_styles
             => TimeContext.style = Get(call.params, "style", "casual")
        /\ TimeContext.currentTime # ""
        /\ IF Get(call.params, "includeTime", TRUE)
           THEN StartsWith(text, entry \o " It's currently " \o TimeContext.currentTime)
           ELSE text = entry

TimeContextConsistentWitness ==
  /\ TimeCalledWithId /\ ~IsError(call.response)
  /\ call.params = [id |-> "x", language |-> "es", style |-> "formal",
                    includeTime |-> FALSE]
  /\ call.env.now.hour = 12
  /\ TimeContext.timePeriod = "noon"
  /\ call.response.parts[1].text = Time_greetings.noon.es.formal

-----------------------------------------------------------------------------
(* Properties of the agent cards (SpecMain).                               *)

\* The extensions map the given card shows.
ExtensionsOf(card) == main.capabilities[card.capabilities].extensions

\* The URIs of the extensions the agent registers, and what
\* get_extension_metadata() of each returns.
RegisteredURIs ==
  IF agent = "helloworld_Ext" THEN {GreetingStyleURI, RandomMethodURI}
  ELSE {TimeGreetingURI}

MetadataOf(uri) ==
  IF uri = GreetingStyleURI THEN Style_extension_metadata
  ELSE IF uri = RandomMethodURI THEN Random_extension_metadata
  ELSE Time_extension_metadata(main.tz_order)

Registered(card) ==
  /\ card # NoCard
  /\ ExtensionsOf(card) # NoneValue
  /\ DOMAIN ExtensionsOf(card) = RegisteredURIs
  /\ \A uri \in RegisteredURIs : ExtensionsOf(card)[uri] = MetadataOf(uri)

\* No step removes or changes an entry of an extensions map.
EntriesKept ==
  \A i \in DOMAIN main.capabilities :
    main.capabilities[i].extensions # NoneValue =>
      \A uri \in DOMAIN main.capabilities[i].extensions :
        /\ main'.capabilities[i].extensions # NoneValue
        /\ uri \in DOMAIN main'.capabilities[i].extensions
        /\ main'.capabilities[i].extensions[uri] = main.capabilities[i].extensions[uri]

\* C17: after the registration at start-up, in both agents and for every
\* extension, the entry under the extension's URI in capabilities.extensions
\* equals get_extension_metadata() of the extension, on the public card and on
\* the extended card, and no registration removes or overwrites an entry.
CardRoundTrip ==
  /\ [](main.pc \in {"serve", "serving"} =>
          /\ Registered(main.public_agent_card)
          /\ Registered(main.specific_extended_agent_card))
  /\ [][EntriesKept]_vars

CardRoundTripWitness ==
  /\ main.pc = "serving"
  /\ agent = "helloworld_Ext"
  /\ main.specific_extended_agent_card.name = "Hello World Agent - Extended Edition"
  /\ DOMAIN ExtensionsOf(main.specific_extended_agent_card)
       = {GreetingStyleURI, RandomMethodURI}
  /\ ExtensionsOf(main.public_agent_card)[RandomMethodURI] = Random_extension_metadata
  /\ ExtensionsOf(main.public_agent_card)[GreetingStyleURI] = Style_extension_metadata

-----------------------------------------------------------------------------
(* Properties of the free-text parsing of the time greeting (Spec).        *)

\* execute() of helloworld_method_ext has called the handler with params taken
\* from the message text: no entry under the extension's URI was used.
TextParsed ==
  /\ agent = "helloworld_method_ext"
  /\ request # NoRequest
  /\ active
  /\ DOMAIN MetadataEntry(request, TimeGreetingURI) = {}

\* The text the parsing sees.
ParsedText == Lower(MessageText(request))

\* The keywords of each field, and the default of each field.
TimeFields == {"timezone", "style", "language", "format", "includeTime"}

FieldKeywords ==
  [timezone    |-> {"utc", "gmt", "new york", "los angeles", "london", "paris", "tokyo",
                    "sydney"},
   style       |-> {"formal", "brief"},
   language    |-> {"spanish", "espa{f1}ol", "french", "fran{e7}ais", "german", "deutsch",
                    "japanese", "{65e5}{672c}{8a9e}"},
   format      |-> {"24 hour", "24h", "military time"},
   includeTime |-> {"no time", "without time"}]

FieldDefaults ==
  [timezone |-> "local", style |-> "casual", language |-> "en", format |-> "12h",
   includeTime |-> TRUE]

\* The fields none of whose keywords occurs in the text.
Unmatched == {f \in TimeFields : ~ContainsAny(ParsedText, FieldKeywords[f])}

\* C18: when the params come from the message text, every field none of whose
\* keywords occurs in the text is handled with its default (timezone local,
\* style casual, language en, format 12h, includeTime true), whatever keywords
\* of other fields occur: params holds no other value for it, and the response
\* is the handler's response to params with these defaults written out.
TextDefaults ==
  TextParsed =>
    /\ \A f \in Unmatched : f \in DOMAIN params => params[f] = FieldDefaults[f]
    /\ \E env \in ExecutorEnvs, uuid \in Uuids :
         response = handle_time_greeting_method(
                      Update(params, [f \in Unmatched |-> FieldDefaults[f]]), env, uuid)

\* No keyword at all: all five defaults, and the greeting says the time.
TextDefaultsWitness ==
  /\ TextParsed
  /\ Unmatched = TimeFields
  /\ ParsedText = "good morning"
  /\ response.metadata.timeContext.timezone = "local"
  /\ response.metadata.timeContext.style = "casual"
  /\ response.metadata.timeContext.language = "en"
  /\ Contains(response.parts[1].text, " It's currently 6:05 AM.")

\* Keywords of one field only: the other four keep their defaults.
TextDefaultsOneFieldWitness ==
  /\ TextParsed
  /\ Unmatched = TimeFields \ {"language"}
  /\ response.metadata.timeContext.language = "fr"
  /\ response.metadata.timeContext.style = "casual"
  /\ response.metadata.timeContext.timezone = "local"

\* The indices of the entries of mapping whose keyword occurs in the text.
Hits(mapping) == {i \in 1..Len(mapping) : Contains(ParsedText, mapping[i][1])}

\* The value of key is the value of the earliest entry of mapping whose keyword
\* occurs in the text, and key is absent when no keyword occurs.
FirstInMapping(key, mapping) ==
  IF Hits(mapping) = {} THEN key \notin DOMAIN params
  ELSE /\ key \in DOMAIN params
       /\ \E i \in Hits(mapping) :
            /\ params[key] = mapping[i][2]
            /\ \A j \in Hits(mapping) : i <= j

\* keyword a occurs in the text before the first occurrence of keyword b.
OccursBefore(a, b) ==
  \E n \in 1..Len(ParsedText) :
    /\ Contains(SubSeq(ParsedText, 1, n), a)
    /\ ~Contains(SubSeq(ParsedText, 1, n), b)

\* C19: when the params come from the message text, the timezone is that of the
\* first keyword, in the order utc, gmt, new york, los angeles, london, paris,
\* tokyo, sydney, that occurs in the text, wherever the keywords stand in the
\* text, and the language that of the first keyword in the order spanish,
\* espanol, french, francais, german, deutsch, japanese, nihongo; one timezone
\* is used (local without a keyword) and at most one language is kept.
FirstMatchWins ==
  TextParsed =>
    /\ FirstInMapping("timezone", timezone_mappings)
    /\ FirstInMapping("language", language_mappings)
    /\ ~IsError(response) =>
         response.metadata.timeContext.language = Get(params, "language", "en")

\* london wins over paris and french over deutsch, each standing later in the text.
FirstMatchWinsWitness ==
  /\ TextParsed
  /\ OccursBefore("paris", "london")
  /\ Contains(ParsedText, "london")
  /\ params.timezone = "Europe/London"
  /\ response.metadata.timeContext.timezone \in
       {"Europe/London", "local (timezone support unavailable)"}

FirstMatchWinsLanguageWitness ==
  /\ TextParsed
  /\ OccursBefore("deutsch", "french")
  /\ Contains(ParsedText, "french")
  /\ params.language = "fr"
  /\ "timezone" \notin DOMAIN params

-----------------------------------------------------------------------------
(* Properties of the state a call of handle_random_method leaves behind    *)
(* (SpecHandlers).                                                         *)

\* The params of the calls that supply no seed.
UnseededParamSets == {p \in RandomParamSets : "seed" \notin DOMAIN p}

\* What a call with params p selects when the generator is in state g.
SelectionFrom(p, g) == Selection(handle_random_method(p, g, "0a1b2c3d").response)

\* A call of handle_random_method with a seed is made in this step.
SeededCallStep ==
  /\ call = NoCall
  /\ call' # NoCall
  /\ call'.method = "message/random"
  /\ "seed" \in DOMAIN call'.params

\* C20: a call of handle_random_method that supplied a seed, ending in a message
\* or in an error, leaves no state that influences a later call: every call
\* without a seed made after it selects what it would have selected had the
\* seeded call not been made.
NoStateOutlivesCall ==
  [][SeededCallStep =>
       \A p \in UnseededParamSets : SelectionFrom(p, rng') = SelectionFrom(p, rng)]_vars

-----------------------------------------------------------------------------
(* Properties of the greeting-style branch of helloworld_Ext (Spec).       *)

\* execute() of helloworld_Ext has answered from its greeting-style branch.
StyleBranch == agent = "helloworld_Ext" /\ Serving /\ ~active

\* The header lists the greeting-style URI.
StyleListed ==
  request.has_active_extensions /\ GreetingStyleURI \in request.active_extensions

\* The entry of the request's metadata under the greeting-style URI ({} when
\* there is none).
StyleEntry == MetadataEntry(request, GreetingStyleURI)

\* The greeting of the style and language the entry names.
EntryGreeting ==
  get_greeting(Get(StyleEntry, "style", "casual"), Get(StyleEntry, "language", "en"))

\* C21: in the greeting-style branch, when the header lists the greeting-style
\* URI the answer is the greeting get_greeting returns for the style and the
\* language of the metadata entry (casual and en for what the entry does not
\* give), whatever the message text is, and never the plain 'Hello World'.
StyleExplicitActivation ==
  StyleBranch /\ StyleListed => Answer = EntryGreeting /\ Answer # HelloWorld

\* C22 as stated: in the greeting-style branch, whenever the metadata carries
\* parameters under the greeting-style URI, the answer is the greeting of the
\* style and language of that entry, whether or not the header lists the URI.
StyleEntryAlwaysUsed ==
  StyleBranch /\ DOMAIN StyleEntry # {} => Answer = EntryGreeting

\* C22, amended: in the greeting-style branch the parameters the metadata
\* carries under the greeting-style URI are used, and the text is not parsed,
\* when the header lists the URI; when it does not, the entry is ignored and the
\* answer is the one the keyword fallback gives for the text.
StyleEntryUsedWhenListed ==
  StyleBranch /\ DOMAIN StyleEntry # {} =>
    IF StyleListed THEN Answer = EntryGreeting
    ELSE Answer = KeywordFallback(Lower(MessageText(request)))

\* Listed, an entry for enthusiastic Japanese and a text that says formal French.
StyleEntryUsedWhenListedWitness ==
  /\ StyleBranch /\ StyleListed
  /\ StyleEntry = [style |-> "enthusiastic", language |-> "ja"]
  /\ request.text = "Hello in formal French"
  /\ Answer = Style_greetings.enthusiastic.ja

\* Not listed: the entry is ignored in favour of the text.
StyleEntryIgnoredWitness ==
  /\ StyleBranch /\ ~StyleListed
  /\ StyleEntry = [style |-> "enthusiastic", language |-> "ja"]
  /\ request.text = "Hello in formal French"
  /\ Answer = Style_greetings.formal.fr

\* The keyword fallback has answered: the header does not list the URI, or the
\* metadata carries no parameters for it.
FallbackUsed == StyleBranch /\ ~(StyleListed /\ DOMAIN StyleEntry # {})

\* C23: whenever the keyword fallback of the greeting-style branch resolves a
\* style other than casual or a language other than en, also through a
\* native-script keyword, the answer is the extension's greeting for the
\* resolved style and language, and not the plain 'Hello World'.
KeywordFallbackConsistent ==
  LET text == Lower(MessageText(request))
  IN  (FallbackUsed /\ <<StyleFromText(text), LanguageFromText(text)>> # <<"casual", "en">>)
        => /\ Answer = get_greeting(StyleFromText(text), LanguageFromText(text))
           /\ Answer # HelloWorld

-----------------------------------------------------------------------------
(* Properties of extend_agent_card on the card it is given (SpecMain).     *)

\* The card __main__ passes to extend_agent_card in the step it is about to take.
ExtendArgument ==
  IF main.pc = "extend_public" THEN main.public_agent_card
  ELSE main.specific_extended_agent_card

\* C24: extend_agent_card leaves its argument unchanged: after the call the
\* capabilities of the card that was passed show the extensions they showed
\* before it, the greeting-style entry being on the returned card only.
ExtendLeavesArgument ==
  [][main # NoMain /\ main.pc \in {"extend_public", "extend_extended"} =>
       main'.capabilities[ExtendArgument.capabilities]
         = main.capabilities[ExtendArgument.capabilities]]_vars

-----------------------------------------------------------------------------
(* Properties of the message handle_random_method returns (SpecHandlers).  *)

\* C25: whenever handle_random_method returns a message, the style in
\* metadata.randomSelection is not in excludeStyles and the language not in
\* excludeLanguages, the text is the catalog's entry for that style and
\* language, and randomSelection holds the key 'seed' exactly when a seed was
\* supplied, with the value supplied.
RandomSelectionSound ==
  (RandomCalled /\ ~IsError(call.response)) =>
    LET sel == call.response.metadata.randomSelection
        p   == call.params
    IN  /\ ~InList(sel.style, Get(p, "excludeStyles", JList(<<>>))[2])
        /\ ~InList(sel.language, Get(p, "excludeLanguages", JList(<<>>))[2])
        /\ call.response.parts[1].text = Random_greetings[sel.style][sel.language]
        /\ "seed" \in DOMAIN sel <=> "seed" \in DOMAIN p
        /\ "seed" \in DOMAIN p => sel.seed = p.seed

\* A seeded call that excludes three styles and English: multilingual, not English.
RandomSelectionSoundWitness ==
  /\ RandomCalled /\ ~IsError(call.response)
  /\ call.params = [id |-> "x", seed |-> JInt(1),
                    excludeStyles |-> JList(<<"formal", "enthusiastic", "casual">>),
                    excludeLanguages |-> JList(<<"en", "xx">>)]
  /\ call.response.metadata.randomSelection.style = "multilingual"
  /\ call.response.metadata.randomSelection.language # "en"
  /\ call.response.metadata.randomSelection.seed = JInt(1)

\* A call without a seed: the message records none.
RandomSelectionUnseededWitness ==
  /\ RandomCalled /\ ~IsError(call.response)
  /\ "seed" \notin DOMAIN call.params
  /\ DOMAIN call.response.metadata.randomSelection = {"style", "language"}

-----------------------------------------------------------------------------
(* Properties of the dispatch in execute() of helloworld_Ext (Spec).       *)

\* The request qualifies for the greeting-style extension: header and metadata
\* parameters, or a style or language keyword in the text.
QualifiesForStyle ==
  \/ StyleListed /\ DOMAIN StyleEntry # {}
  \/ ContainsAny(Lower(MessageText(request)), greeting_keywords)

\* C26: in execute() of helloworld_Ext a request that activates the random
\* method, by the active-extension list or by a keyword, is answered from the
\* response of handle_random_method alone, also when it qualifies for the
\* greeting-style extension; the greeting-style branch answers only the
\* requests that do not activate the random method.
DispatchPrecedence ==
  (agent = "helloworld_Ext" /\ Serving) =>
    IF Listed \/ KeywordInText
    THEN /\ active
         /\ response # NoResponse
         /\ Answer = RandomResult(response)
         /\ Answer # GreetingStyleBranch(request, Lower(MessageText(request)))
    ELSE /\ ~active
         /\ response = NoResponse
         /\ Answer = GreetingStyleBranch(request, Lower(MessageText(request)))

\* Activated by a keyword, with the greeting-style URI listed, parameters for
\* it in the metadata and style keywords in the text.
DispatchPrecedenceWitness ==
  /\ agent = "helloworld_Ext" /\ Serving
  /\ KeywordInText /\ ~Listed
  /\ StyleListed /\ StyleEntry = [style |-> "formal"]
  /\ request.text = "Surprise me in formal French"
  /\ active
  /\ Answer = RandomResult(response)

-----------------------------------------------------------------------------
(* Properties of the event queue of execute() (SpecAnyMetadata).           *)

\* C27: every call of execute(), of either executor, enqueues exactly one agent
\* text message: the extension's text on success, 'Error: ' and the error's
\* message on an extension error, the fallback's text otherwise; no call ends
\* with nothing enqueued and none enqueues twice.
OneMessagePerExecute ==
  Serving =>
    /\ Len(event_queue) = 1
    /\ event_queue[1].kind = "message" /\ event_queue[1].role = "agent"
    /\ (active /\ IsError(response)) => Answer = "Error: " \o response.error.message
    /\ (active /\ ~IsError(response)) => StartsWith(Answer, response.parts[1].text)
    /\ (~active /\ agent = "helloworld_method_ext") => Answer = HelloWorld

-----------------------------------------------------------------------------
(* Properties of the events of the gRPC executor (SpecGrpc).               *)

\* The events of a whole call for the context: a task event only when the
\* context has no current task, 'Hello', ' World', the artifact, the completion.
ExpectedEvents(ctx) ==
  (IF ctx.current_task THEN <<>> ELSE <<TaskEvent(ctx.context_id)>>)
    \o <<WorkingEvent("Hello"), WorkingEvent(" World"),
         ArtifactEvent(" from gRPC!"), CompletedEvent>>

IsPrefix(a, b) == Len(a) <= Len(b) /\ a = SubSeq(b, 1, Len(a))

\* The positions of the queue that hold an event of the given kind.
Positions(kind) == {i \in 1..Len(event_queue) : event_queue[i].event = kind}

\* C28: HelloWorldGrpcAgentExecutor.execute enqueues a task event first exactly
\* when the context has no current task, then the working updates 'Hello' and
\* ' World' in this order, then one artifact named 'response', then one
\* completion; the completion is the last event and no working update follows
\* the artifact.
GrpcEventOrder ==
  /\ [](request # NoRequest =>
          /\ IsPrefix(event_queue, ExpectedEvents(request))
          /\ call.pc = "done" => event_queue = ExpectedEvents(request)
          /\ \A i \in Positions("task") : i = 1 /\ ~request.current_task
          /\ \A a \in Positions("artifact") : \A i \in Positions("status") :
               i > a => event_queue[i].state = "completed" /\ i = Len(event_queue))
  /\ [][request # NoRequest /\ request' # NoRequest =>
          IsPrefix(event_queue, event_queue')]_vars

GrpcEventOrderWitness ==
  /\ request # NoRequest /\ ~request.current_task
  /\ call.pc = "done"
  /\ Len(event_queue) = 5
  /\ event_queue[1].event = "task"
  /\ event_queue[4].event = "artifact" /\ event_queue[4].name = "response"
  /\ event_queue[5] = CompletedEvent

\* With a current task no task event is enqueued.
GrpcExistingTaskWitness ==
  /\ request # NoRequest /\ request.current_task
  /\ call.pc = "done"
  /\ Len(event_queue) = 4
  /\ event_queue[1] = WorkingEvent("Hello")

-----------------------------------------------------------------------------
(* Properties of the params the executors build (Spec).                    *)

\* C29: for every request an executor routes to handle_random_method or
\* handle_time_greeting_method, the params it builds hold the key 'id', also
\* when a metadata entry was merged, and the caller is never answered with the
\* error -32602 'Invalid params'.
IdAlwaysPresent ==
  (Serving /\ active) =>
    /\ "id" \in DOMAIN params
    /\ response # NoResponse
    /\ IsError(response) => response.error.code # -32602
    /\ ~StartsWith(Answer, "Error: Invalid params")

\* A metadata entry without an id was merged: the id is the task's.
IdAlwaysPresentWitness ==
  /\ Serving /\ active /\ HasEntry
  /\ "id" \notin DOMAIN Entry /\ DOMAIN Entry # {}
  /\ params.id = request.task_id
  /\ ~IsError(response)

\* A metadata entry with an id of its own was merged: the entry's id is kept.
IdFromEntryWitness ==
  /\ Serving /\ active /\ HasEntry
  /\ "id" \in DOMAIN Entry
  /\ params.id = "meta-id"

-----------------------------------------------------------------------------
(* Properties of the exclusions read from the text (Spec).                 *)

\* The names the text uses for the styles and the languages.
StyleNames    == [formal |-> "formal", enthusiastic |-> "enthusiastic",
                  casual |-> "casual", multilingual |-> "multilingual"]
LanguageNames == [en |-> "english", es |-> "spanish", fr |-> "french",
                  de |-> "german", ja |-> "japanese"]

\* The styles or languages the request's text negates.
NegatedIn(names) ==
  {s \in DOMAIN names :
     \/ Contains(Lower(MessageText(request)), "no " \o names[s])
     \/ Contains(Lower(MessageText(request)), "not " \o names[s])}

\* The members of the exclusion list params holds under key (none without the key).
Excluded(key) ==
  IF key \in DOMAIN params
  THEN {params[key][2][i] : i \in 1..Len(params[key][2])}
  ELSE {}

\* execute() of helloworld_Ext has called the random method with params read
\* from the text.
RandomTextParsed ==
  /\ agent = "helloworld_Ext" /\ Serving /\ active
  /\ DOMAIN MetadataEntry(request, RandomMethodURI) = {}

\* C30: when the params of the random method come from the text, a style or a
\* language is excluded exactly when the lower-cased text holds 'no ' or 'not '
\* followed by its name; when all four styles or all five languages are negated
\* the answer is 'Error: No valid style/language combinations available', and
\* otherwise it is a greeting whose style and language are not negated.
TextExclusions ==
  RandomTextParsed =>
    /\ Excluded("excludeStyles") = NegatedIn(StyleNames)
    /\ Excluded("excludeLanguages") = NegatedIn(LanguageNames)
    /\ "excludeStyles" \in DOMAIN params => params.excludeStyles[2] # <<>>
    /\ "excludeLanguages" \in DOMAIN params => params.excludeLanguages[2] # <<>>
    /\ IF \/ NegatedIn(StyleNames) = DOMAIN StyleNames
          \/ NegatedIn(LanguageNames) = DOMAIN LanguageNames
       THEN Answer = "Error: No valid style/language combinations available"
       ELSE /\ ~IsError(response)
            /\ response.metadata.randomSelection.style \notin NegatedIn(StyleNames)
            /\ response.metadata.randomSelection.language \notin NegatedIn(LanguageNames)
            /\ Answer = RandomResult(response)
            /\ StartsWith(Answer,
                 Random_greetings[response.metadata.randomSelection.style]
                                 [response.metadata.randomSelection.language])

\* 'not formal, no spanish': formal and Spanish are excluded and not selected.
TextExclusionsWitness ==
  /\ RandomTextParsed
  /\ request.text = "Surprise me not formal, no spanish"
  /\ params = [id |-> request.task_id, excludeStyles |-> JList(<<"formal">>),
               excludeLanguages |-> JList(<<"es">>)]
  /\ ~IsError(response)
  /\ response.metadata.randomSelection.style # "formal"

\* All four styles negated: the error text.
TextExclusionsExhaustedWitness ==
  /\ RandomTextParsed
  /\ NegatedIn(StyleNames) = DOMAIN StyleNames
  /\ Answer = "Error: No valid style/language combinations available"

=============================================================================
